---- MODULE Spec2Model ----
(***************************************************************************)
(* CapyDeploy Decky agent backend (src/apps/decky/main.py) as a state      *)
(* machine: the pairing manager, the per-connection dispatch loop of the   *)
(* WebSocket server, the upload session registry, the event slots of the   *)
(* settings store and the local control API of the plugin.                 *)
(*                                                                         *)
(* Every message handler is one atomic action: its awaits (queue put on an *)
(* unbounded asyncio.Queue, notify_frontend, synchronous file I/O) never   *)
(* suspend, so the cooperative scheduler cannot interleave another         *)
(* connection inside a handler.  The only suspension points of             *)
(* handle_connection are the socket read and the await of the write task   *)
(* in the finally block, which is why closing is two actions.              *)
(***************************************************************************)
EXTENDS Integers, Sequences, FiniteSets, TLC

\* ---------------------------------------------------------------- bounds
MaxConns == 2
MaxTime == 61
MaxBytes == 3
MaxUploads == 2
MaxTracked == 2
GateBytes == 1
GateTracked == 1
MaxFrames == 2
MaxServices == 3

\* ------------------------------------------------------ program constants
PAIRING_CODE_EXPIRY == 60
CHUNK_SIZE == 1048576

\* ------------------------------------------------------------ input sets
None == "None"
Conns == 1..MaxConns
HubIds == {"H1", "H2"}
HubNames == {"Hub"}
HubVersions == {"0.1"}
Codes == {"111111", "222222"}
Tokens == {"Ta", "Tb"}
MsgIds == {"1", "2"}
TickSteps == {PAIRING_CODE_EXPIRY, PAIRING_CODE_EXPIRY + 1}
EventNames == {"hub_connected", "hub_disconnected", "pairing_code",
               "pairing_success", "operation_event", "upload_progress",
               "create_shortcut", "remove_shortcut"}

\* Optional values: Python None is the empty sequence, a value v is <<v>>.
Nothing == << >>
Some(v) == << v >>

\* The empty dict.
EmptyMap == [k \in {} |-> k]

VARIABLES
    now,               \* time.time(), whole seconds
    conns,             \* per connection: the locals of handle_connection
    pending_code,      \* PairingManager.pending_code
    pending_hub_id,    \* PairingManager.pending_hub_id
    pending_hub_name,  \* PairingManager.pending_hub_name
    code_expires_at,   \* PairingManager.code_expires_at
    authorized_hubs,   \* settings["authorized_hubs"]
    connected_hub,     \* WebSocketServer.connected_hub
    send_queue,        \* WebSocketServer._send_queue: whose queue it is
    events,            \* settings["_event_<name>"]
    track_events,      \* whether this specification keeps the event slots
    uploads,           \* WebSocketServer.uploads: upload id -> UploadSession
    applied,           \* per session: the lengths of the chunks written for it (history)
    fs_dirs,           \* the directories that exist on disk
    fs_files,          \* the files on disk: path -> content
    tracked_shortcuts, \* settings["tracked_shortcuts"]
    queues,            \* the asyncio.Queue each connection created: its items
    getters,           \* per queue: the write pumps suspended in its get(), in order
    pumps,             \* per connection: the _write_pump task it created
    write_task,        \* WebSocketServer._write_task: whose pump it is
    written,           \* per socket: the frames websocket.send delivered
    enq,               \* per connection: the replies its handlers queued (history)
    track_writes,      \* whether this specification keeps the write path
    mdns,              \* settings["enabled"], Plugin.mdns_service and the MDNSService objects made
    last               \* the step just taken and the frame it queued

pairing_vars == << pending_code, pending_hub_id, pending_hub_name, code_expires_at >>
upload_vars == << uploads, applied, fs_dirs, fs_files, tracked_shortcuts >>
write_vars == << queues, getters, pumps, write_task, written, enq >>
vars == << now, conns, pending_code, pending_hub_id, pending_hub_name,
           code_expires_at, authorized_hubs, connected_hub, send_queue,
           events, track_events, uploads, applied, fs_dirs, fs_files, tracked_shortcuts,
           queues, getters, pumps, write_task, written, enq, track_writes, mdns,
           last >>

\* ------------------------------------------------------- protocol frames
\* send(): {"id", "type", "payload"}; payload None leaves the key out.
Msg(msg_id, msg_type, payload) ==
    [id |-> msg_id, type |-> msg_type, payload |-> payload,
     error |-> [code |-> 0, message |-> ""]]

\* send_error(): {"id", "type": "error", "error": {"code", "message"}}.
ErrorMsg(msg_id, code, message) ==
    [id |-> msg_id, type |-> "error", payload |-> EmptyMap,
     error |-> [code |-> code, message |-> message]]

\* What a step records: the operation, the connection it ran on, the request
\* id, its inputs, the frames it put on the send queue and the queue they
\* went to.
Step(op, c, msg_id, arg, frames) ==
    [op |-> op, conn |-> c, id |-> msg_id, arg |-> arg, reply |-> frames,
     queue |-> send_queue]

LocalStep(op, arg) ==
    [op |-> op, conn |-> 0, id |-> "", arg |-> arg, reply |-> Nothing, queue |-> 0]

\* ------------------------------------------------------------ write path
\* A queue item: the frame and the connection whose handler queued it; the
\* shutdown signal (None) is the item without a frame.
Item(c, frames) == [from |-> c, frame |-> frames]
Sentinel(c) == Item(c, Nothing)
NoItem == Item(0, Nothing)

\* A _write_pump task: "blocked" in get() of the queue `on` (it is in that
\* queue's getters), "ready" (woken by a put, not yet resumed), "sending"
\* (inside websocket.send with `item`), "stuck" (blocked on a queue that is
\* no longer the server's, so that nothing is ever put on it), "done".
Pump(st, on, item) == [st |-> st, on |-> on, item |-> item]
NoPump == Pump("none", 0, NoItem)
DonePump == Pump("done", 0, NoItem)

\* asyncio.Queue.put on the server's current queue: the item is appended and
\* the first getter woken.  (The queue is unbounded: put never suspends.)
put(item) ==
    /\ queues' = [queues EXCEPT ![send_queue] = Append(@, item)]
    /\ IF getters[send_queue] # << >>
       THEN /\ getters' = [getters EXCEPT ![send_queue] = Tail(@)]
            /\ pumps' = [pumps EXCEPT ![Head(getters[send_queue])].st = "ready"]
       ELSE UNCHANGED << getters, pumps >>

\* send() / send_error() at the end of a handler: the step's frame goes to
\* self._send_queue, whichever connection created that queue.
enqueue(step) ==
    /\ last' = step
    /\ IF track_writes /\ step.reply # Nothing
       THEN /\ put(Item(step.conn, step.reply))
            /\ enq' = [enq EXCEPT ![step.conn] = Append(@, step.reply[1])]
            /\ UNCHANGED << write_task, written >>
       ELSE UNCHANGED write_vars

\* A step that touches neither a queue nor a pump.
no_reply(step) == last' = step /\ UNCHANGED write_vars

\* notify_frontend(): the slot _event_<event> is overwritten.  The agent only
\* ever writes the slots (get_event, the one reader, is called by the UI), so
\* they influence no other variable; a specification that is not about events
\* starts with track_events = FALSE and leaves them empty.
notify_frontend(ev, event, data) ==
    IF track_events
    THEN [ev EXCEPT ![event] = Some([timestamp |-> now, data |-> data])]
    ELSE ev

\* ------------------------------------------------------- PairingManager
\* validate_token(): the hub is known and its stored token is the one given.
validate_token(hub_id, token) ==
    /\ hub_id \in DOMAIN authorized_hubs
    /\ authorized_hubs[hub_id].token = token

\* Variant of validate_code(): the hub that presents the code is not compared
\* with the hub the code was generated for.
validate_code_any_hub(hub_id, code) ==
    /\ ~(pending_code = None \/ now > code_expires_at)
    /\ ~(pending_code # code)

\* Variant of validate_code(): the expiry time is not looked at.
validate_code_no_expiry(hub_id, code) ==
    /\ ~(pending_code = None)
    /\ ~(pending_hub_id # hub_id \/ pending_code # code)

\* validate_code(): the two early returns, negated.
validate_code_accepts(hub_id, code) ==
    /\ ~(pending_code = None \/ now > code_expires_at)
    /\ ~(pending_hub_id # hub_id \/ pending_code # code)

\* Variant of generate_code(): a pending pairing is kept, the new one dropped.
generate_code_first(hub_id, hub_name, code) ==
    IF pending_code # None
    THEN UNCHANGED pairing_vars
    ELSE /\ pending_code' = code
         /\ pending_hub_id' = hub_id
         /\ pending_hub_name' = hub_name
         /\ code_expires_at' = now + PAIRING_CODE_EXPIRY

\* generate_code(): the pending pairing is overwritten.
generate_code(hub_id, hub_name, code) ==
    /\ pending_code' = code
    /\ pending_hub_id' = hub_id
    /\ pending_hub_name' = hub_name
    /\ code_expires_at' = now + PAIRING_CODE_EXPIRY

\* Variant of validate_code(), success path: the dict of authorized hubs is
\* replaced by one holding the new hub only.
validate_code_commit_single(hub_id, token) ==
    /\ authorized_hubs' =
          [h \in {hub_id} |->
              [name |-> pending_hub_name, token |-> token, paired_at |-> now]]
    /\ pending_code' = None
    /\ pending_hub_id' = None
    /\ pending_hub_name' = None
    /\ UNCHANGED code_expires_at

\* Variant of validate_code(), success path: the pending pairing is not
\* cleared.
validate_code_commit_keep(hub_id, token) ==
    /\ authorized_hubs' =
          [h \in DOMAIN authorized_hubs \cup {hub_id} |->
              IF h = hub_id
              THEN [name |-> pending_hub_name, token |-> token, paired_at |-> now]
              ELSE authorized_hubs[h]]
    /\ UNCHANGED pairing_vars

\* validate_code(), success path: store the hub, clear the pending pairing
\* (code_expires_at is left as it is).
validate_code_commit(hub_id, token) ==
    /\ authorized_hubs' =
          [h \in DOMAIN authorized_hubs \cup {hub_id} |->
              IF h = hub_id
              THEN [name |-> pending_hub_name, token |-> token, paired_at |-> now]
              ELSE authorized_hubs[h]]
    /\ pending_code' = None
    /\ pending_hub_id' = None
    /\ pending_hub_name' = None
    /\ UNCHANGED code_expires_at

\* ------------------------------------------------------------ MDNSService
\* An MDNSService object: its fields zeroconf and service_info (set or
\* None), the position of its registration thread ("start", "info" after
\* service_info is assigned, "zeroconf" after Zeroconf() is assigned, "done"
\* after register_service returned or raised), and whether its record is
\* published.
NewService ==
    [zeroconf |-> FALSE, service_info |-> FALSE, thread |-> "start",
     published |-> FALSE]

\* Plugin._main with the setting enabled: one MDNSService is made and
\* started.
MainStarted == [enabled |-> TRUE, service |-> 1, objs |-> << NewService >>]

\* The records this agent has published.
Published == {k \in DOMAIN mdns.objs : mdns.objs[k].published}

\* MDNSService.stop(): with zeroconf and service_info both set the service
\* is unregistered, the handle closed and both fields cleared; otherwise
\* nothing happens.  The thread is not joined.
MDNSService_stop(obj) ==
    IF obj.zeroconf /\ obj.service_info
    THEN [obj EXCEPT !.zeroconf = FALSE, !.service_info = FALSE,
                     !.published = FALSE]
    ELSE obj

\* Plugin.set_enabled(True): the setting is stored, a new MDNSService
\* replaces the one in Plugin.mdns_service and is started.
set_enabled_true ==
    /\ Len(mdns.objs) < MaxServices
    /\ mdns' = [enabled |-> TRUE, service |-> Len(mdns.objs) + 1,
                objs |-> Append(mdns.objs, NewService)]
    /\ no_reply(LocalStep("set_enabled", [enabled |-> TRUE]))
    /\ UNCHANGED << track_events, track_writes, now, conns, pairing_vars, authorized_hubs,
                    connected_hub, send_queue, events, upload_vars >>

\* Plugin.set_enabled(False): the setting is stored; the MDNSService in
\* Plugin.mdns_service, if any, is stopped and the field set to None.
set_enabled_false ==
    /\ mdns' = [enabled |-> FALSE, service |-> 0,
                objs |-> IF mdns.service = 0 THEN mdns.objs
                         ELSE [mdns.objs EXCEPT ![mdns.service] = MDNSService_stop(@)]]
    /\ no_reply(LocalStep("set_enabled", [enabled |-> FALSE]))
    /\ UNCHANGED << track_events, track_writes, now, conns, pairing_vars, authorized_hubs,
                    connected_hub, send_queue, events, upload_vars >>

\* MDNSService._register_in_thread, one step of the thread of object k:
\* self.service_info = ServiceInfo(...); self.zeroconf = Zeroconf();
\* self.zeroconf.register_service(...).  The last step reads self.zeroconf
\* again: after a stop() it is None and the call raises; while another
\* record of this agent is published the registration of the same name
\* succeeds or raises.
register_in_thread(k) ==
    /\ k \in DOMAIN mdns.objs
    /\ LET obj == mdns.objs[k]
       IN \/ /\ obj.thread = "start"
             /\ mdns' = [mdns EXCEPT !.objs[k].service_info = TRUE,
                                     !.objs[k].thread = "info"]
          \/ /\ obj.thread = "info"
             /\ mdns' = [mdns EXCEPT !.objs[k].zeroconf = TRUE,
                                     !.objs[k].thread = "zeroconf"]
          \/ /\ obj.thread = "zeroconf"
             /\ \E accepted \in BOOLEAN :
                   /\ Published \ {k} = {} => accepted
                   /\ mdns' = [mdns EXCEPT
                                  !.objs[k].published = obj.zeroconf /\ accepted,
                                  !.objs[k].thread = "done"]
    /\ no_reply(LocalStep("register_in_thread", [service |-> k]))
    /\ UNCHANGED << track_events, track_writes, now, conns, pairing_vars, authorized_hubs,
                    connected_hub, send_queue, events, upload_vars >>

\* ------------------------------------------------------------------ Init
\* The state after Plugin._main on a fresh settings file, server enabled: no
\* connection, no pending pairing, no paired hub, empty registry, the install
\* root created (os.makedirs at the end of _main).
NewConn == [st |-> "closed", authorized |-> FALSE, hub_id |-> None]
Root == << "Games" >>

EmptyQueues == [q \in Conns |-> << >>]
NoPumps == [p \in Conns |-> NoPump]

InitState(events_on, writes_on) ==
    /\ track_events = events_on
    /\ track_writes = writes_on
    /\ mdns = MainStarted
    /\ queues = EmptyQueues
    /\ getters = EmptyQueues
    /\ pumps = NoPumps
    /\ write_task = 0
    /\ written = EmptyQueues
    /\ enq = EmptyQueues
    /\ now = 0
    /\ conns = [c \in Conns |-> NewConn]
    /\ pending_code = None
    /\ pending_hub_id = None
    /\ pending_hub_name = None
    /\ code_expires_at = 0
    /\ authorized_hubs = EmptyMap
    /\ connected_hub = Nothing
    /\ send_queue = 0
    /\ events = [e \in EventNames |-> Nothing]
    /\ uploads = EmptyMap
    /\ applied = EmptyMap
    /\ fs_dirs = {Root}
    /\ fs_files = EmptyMap
    /\ tracked_shortcuts = << >>
    /\ last = LocalStep("init", Nothing)

InitWith(tracking) == InitState(tracking, FALSE)
Init == InitState(TRUE, TRUE)
InitNoEvents == InitWith(FALSE)
InitWrites == InitState(FALSE, TRUE)

\* -------------------------------------------- WebSocketServer: connections
IsOpen(c) == conns[c].st = "open"

\* handle_connection, up to the read loop: fresh locals, a new send queue and
\* a new write task, both stored on the server object.
\* Whether connection slot c can be taken again: the pump of its previous
\* connection has ended or can never run again, and no pump is about to read
\* the queue that connection created.
SlotFree(c) ==
    /\ pumps[c].st \in {"none", "done", "blocked", "stuck"}
    /\ \A p \in Conns : ~(pumps[p].st = "ready" /\ pumps[p].on = c)

\* self._send_queue = asyncio.Queue(); self._write_task = create_task(...):
\* the new pump runs up to its first get() and blocks on the new, empty
\* queue.  Every pump blocked on an older queue stays blocked for good (all
\* later puts go to the new queue); a queue no pump will read is garbage.
start_write_pump(c) ==
    IF ~track_writes THEN UNCHANGED write_vars
    ELSE /\ queues' = [q \in Conns |->
                          IF q # c /\ \E p \in Conns : pumps[p].st = "ready" /\ pumps[p].on = q
                          THEN queues[q] ELSE << >>]
         /\ getters' = [q \in Conns |-> IF q = c THEN << c >> ELSE << >>]
         /\ pumps' = [p \in Conns |->
                         IF p = c THEN Pump("blocked", c, NoItem)
                         ELSE IF pumps[p].st = "blocked" THEN Pump("stuck", 0, NoItem)
                         ELSE pumps[p]]
         /\ write_task' = c
         /\ written' = [written EXCEPT ![c] = << >>]
         /\ enq' = [enq EXCEPT ![c] = << >>]

\* finally: `await self._send_queue.put(None)` on the server's current queue,
\* then `self._write_task.cancel()` on the server's current write task.  The
\* put wakes the first getter; a cancelled task that had been woken passes
\* its wake-up to the next getter when the queue is not empty
\* (asyncio.Queue.get); a send that is cancelled half-way may or may not
\* have delivered its frame.
stop_write_pump(c) ==
    IF ~track_writes THEN UNCHANGED write_vars
    ELSE LET q == send_queue
             t == write_task
             items == [queues EXCEPT ![q] = Append(@, Sentinel(c))]
             g1 == IF getters[q] # << >> THEN [getters EXCEPT ![q] = Tail(@)] ELSE getters
             p1 == IF getters[q] # << >>
                   THEN [pumps EXCEPT ![Head(getters[q])].st = "ready"] ELSE pumps
             tq == p1[t].on
             pass == /\ p1[t].st = "ready"
                     /\ items[tq] # << >>
                     /\ g1[tq] # << >>
         IN /\ queues' = items
            /\ getters' = [qq \in Conns |->
                              LET g == SelectSeq(g1[qq], LAMBDA x : x # t)
                              IN IF pass /\ qq = tq THEN Tail(g) ELSE g]
            /\ pumps' = [x \in Conns |->
                            IF x = t THEN DonePump
                            ELSE IF pass /\ x = Head(g1[tq])
                                 THEN [p1[x] EXCEPT !.st = "ready"]
                                 ELSE p1[x]]
            /\ \E delivered \in BOOLEAN :
                  written' = IF pumps[t].st = "sending" /\ conns[t].st = "open" /\ delivered
                             THEN [written EXCEPT ![t] = Append(@, pumps[t].item)]
                             ELSE written
            /\ UNCHANGED << write_task, enq >>

connection_open(c) ==
    /\ conns[c].st = "closed"
    /\ track_writes => SlotFree(c)
    /\ conns' = [conns EXCEPT ![c] = [st |-> "open", authorized |-> FALSE, hub_id |-> None]]
    /\ send_queue' = c
    /\ start_write_pump(c)
    /\ last' = [LocalStep("open", Nothing) EXCEPT !.conn = c]
    /\ UNCHANGED << track_events, track_writes, mdns, now, pairing_vars, authorized_hubs, connected_hub, events, upload_vars >>

\* handle_connection, finally block up to `await self._write_task`: the
\* sentinel goes to the server's current queue and the current write task is
\* cancelled; the coroutine then suspends.
connection_closing(c) ==
    /\ conns[c].st = "open"
    /\ conns' = [conns EXCEPT ![c].st = "closing"]
    /\ stop_write_pump(c)
    /\ last' = [LocalStep("closing", Nothing) EXCEPT !.conn = c, !.queue = send_queue]
    /\ UNCHANGED << track_events, track_writes, mdns, now, pairing_vars, authorized_hubs, connected_hub, send_queue,
                    events, upload_vars >>

\* Variant of the rest of the finally block: the registry is emptied too.
connection_closed_cancels(c) ==
    /\ conns[c].st = "closing"
    /\ IF connected_hub # Nothing /\ connected_hub[1].id = conns[c].hub_id
       THEN /\ connected_hub' = Nothing
            /\ events' = notify_frontend(events, "hub_disconnected", EmptyMap)
       ELSE UNCHANGED << connected_hub, events >>
    /\ conns' = [conns EXCEPT ![c] = NewConn]
    /\ uploads' = EmptyMap
    /\ applied' = EmptyMap
    /\ no_reply([LocalStep("closed", Nothing) EXCEPT !.conn = c])
    /\ UNCHANGED << track_events, track_writes, mdns, now, pairing_vars, authorized_hubs, send_queue,
                    fs_dirs, fs_files, tracked_shortcuts >>

\* handle_connection, rest of the finally block: connected_hub is cleared and
\* hub_disconnected published when its id is this connection's hub_id.
connection_closed(c) ==
    /\ conns[c].st = "closing"
    /\ IF connected_hub # Nothing /\ connected_hub[1].id = conns[c].hub_id
       THEN /\ connected_hub' = Nothing
            /\ events' = notify_frontend(events, "hub_disconnected", EmptyMap)
       ELSE UNCHANGED << connected_hub, events >>
    /\ conns' = [conns EXCEPT ![c] = NewConn]
    /\ no_reply([LocalStep("closed", Nothing) EXCEPT !.conn = c])
    /\ UNCHANGED << track_events, track_writes, mdns, now, pairing_vars, authorized_hubs, send_queue, upload_vars >>

\* ------------------------------------------------------------ _write_pump
\* `await self._send_queue.get()` evaluated by pump p: on an empty queue the
\* pump blocks in that queue's getters, otherwise it takes the head, ends on
\* the shutdown signal and enters websocket.send with any other item.
get_next(p, q, items, waiting, tasks) ==
    IF items[q] = << >>
    THEN /\ queues' = items
         /\ getters' = IF q = send_queue
                        THEN [waiting EXCEPT ![q] = Append(@, p)] ELSE waiting
         /\ pumps' = [tasks EXCEPT ![p] = IF q = send_queue
                                           THEN Pump("blocked", q, NoItem)
                                           ELSE Pump("stuck", 0, NoItem)]
    ELSE /\ queues' = [items EXCEPT ![q] = Tail(@)]
         /\ getters' = waiting
         /\ pumps' = [tasks EXCEPT ![p] = IF Head(items[q]).frame = Nothing
                                           THEN DonePump
                                           ELSE Pump("sending", q, Head(items[q]))]

\* _write_pump, resumed in get() after a put woke it: it reads the queue it
\* was blocked on.
write_pump_resume(p) ==
    /\ track_writes
    /\ pumps[p].st = "ready"
    /\ get_next(p, pumps[p].on, queues, getters, pumps)
    /\ last' = [LocalStep("pump_resume", Nothing) EXCEPT !.conn = p, !.queue = pumps[p].on]
    /\ UNCHANGED << write_task, written, enq >>
    /\ UNCHANGED << track_events, track_writes, mdns, now, conns, pairing_vars, authorized_hubs,
                    connected_hub, send_queue, events, upload_vars >>

\* _write_pump, websocket.send returns: the frame is on p's socket and the
\* pump goes on with get() of whatever queue self._send_queue is now; on a
\* closed socket send raises and the pump ends (the frame is lost).
write_pump_sent(p) ==
    /\ track_writes
    /\ pumps[p].st = "sending"
    /\ IF conns[p].st = "open"
       THEN /\ written' = [written EXCEPT ![p] = Append(@, pumps[p].item)]
            /\ get_next(p, send_queue, queues, getters, pumps)
       ELSE /\ pumps' = [pumps EXCEPT ![p] = DonePump]
            /\ UNCHANGED << queues, getters, written >>
    /\ last' = [op |-> "write", conn |-> p, id |-> pumps[p].item.frame[1].id,
                arg |-> [from |-> pumps[p].item.from, sent |-> conns[p].st = "open"],
                reply |-> pumps[p].item.frame, queue |-> pumps[p].on]
    /\ UNCHANGED << write_task, enq >>
    /\ UNCHANGED << track_events, track_writes, mdns, now, conns, pairing_vars, authorized_hubs,
                    connected_hub, send_queue, events, upload_vars >>

\* ----------------------------------------------------------- handshake
AgentStatus ==
    [name |-> "Steam Deck", version |-> "0.1.0", platform |-> "linux",
     acceptConnections |-> TRUE]

\* handle_hub_connected and the assignment of its result to the locals
\* (hub_id, authorized).  hub_id and token are "" when the payload has none.
handle_hub_connected(c, msg_id, hub_id, hub_name, hub_version, token) ==
    /\ IsOpen(c)
    /\ IF token # "" /\ hub_id # "" /\ validate_token(hub_id, token)
       THEN /\ connected_hub' = Some([id |-> hub_id, name |-> hub_name,
                                      version |-> hub_version])
            /\ enqueue(Step("hub_connected", c, msg_id, [hubId |-> hub_id, token |-> token],
                            Some(Msg(msg_id, "agent_status", AgentStatus))))
            /\ events' = notify_frontend(events, "hub_connected",
                                         [name |-> hub_name, version |-> hub_version])
            /\ conns' = [conns EXCEPT ![c].hub_id = hub_id, ![c].authorized = TRUE]
            /\ UNCHANGED pairing_vars
       ELSE IF hub_id = ""
       THEN /\ enqueue(Step("hub_connected", c, msg_id, [hubId |-> hub_id, token |-> token],
                            Some(ErrorMsg(msg_id, 401, "hub_id required"))))
            /\ conns' = [conns EXCEPT ![c].hub_id = None, ![c].authorized = FALSE]
            /\ UNCHANGED << pairing_vars, connected_hub, events >>
       ELSE \E code \in Codes :
            /\ generate_code(hub_id, hub_name, code)
            /\ enqueue(Step("hub_connected", c, msg_id, [hubId |-> hub_id, token |-> token],
                            Some(Msg(msg_id, "pairing_required",
                                     [code |-> code, expiresIn |-> PAIRING_CODE_EXPIRY]))))
            /\ events' = notify_frontend(events, "pairing_code", [code |-> code])
            /\ conns' = [conns EXCEPT ![c].hub_id = hub_id, ![c].authorized = FALSE]
            /\ UNCHANGED connected_hub
    /\ UNCHANGED << track_events, track_writes, mdns, now, authorized_hubs, send_queue, upload_vars >>

\* Variant of handle_pair_confirm: a failed attempt consumes the pending
\* pairing.
handle_pair_confirm_consuming(c, msg_id, code) ==
    /\ IsOpen(c)
    /\ IF validate_code_accepts(conns[c].hub_id, code)
       THEN \E token \in Tokens :
            /\ validate_code_commit(conns[c].hub_id, token)
            /\ connected_hub' = Some([id |-> conns[c].hub_id,
                                      name |-> pending_hub_name', version |-> None])
            /\ enqueue(Step("pair_confirm", c, msg_id, [code |-> code],
                            Some(Msg(msg_id, "pair_success", [token |-> token]))))
            /\ events' = notify_frontend(events, "pairing_success", EmptyMap)
            /\ conns' = [conns EXCEPT ![c].authorized = TRUE]
       ELSE /\ enqueue(Step("pair_confirm", c, msg_id, [code |-> code],
                            Some(Msg(msg_id, "pair_failed", [reason |-> "Invalid code"]))))
            /\ conns' = [conns EXCEPT ![c].authorized = FALSE]
            /\ pending_code' = None
            /\ pending_hub_id' = None
            /\ pending_hub_name' = None
            /\ UNCHANGED << code_expires_at, authorized_hubs, connected_hub, events >>
    /\ UNCHANGED << track_events, track_writes, mdns, now, send_queue, upload_vars >>

\* handle_pair_confirm and the assignment of its result to the local
\* `authorized`.  connected_hub's name is read from the pairing manager after
\* validate_code returned; the dict has no "version" key.
handle_pair_confirm(c, msg_id, code) ==
    /\ IsOpen(c)
    /\ IF validate_code_accepts(conns[c].hub_id, code)
       THEN \E token \in Tokens :
            /\ validate_code_commit(conns[c].hub_id, token)
            /\ connected_hub' = Some([id |-> conns[c].hub_id,
                                      name |-> pending_hub_name', version |-> None])
            /\ enqueue(Step("pair_confirm", c, msg_id, [code |-> code],
                            Some(Msg(msg_id, "pair_success", [token |-> token]))))
            /\ events' = notify_frontend(events, "pairing_success", EmptyMap)
            /\ conns' = [conns EXCEPT ![c].authorized = TRUE]
       ELSE /\ enqueue(Step("pair_confirm", c, msg_id, [code |-> code],
                            Some(Msg(msg_id, "pair_failed", [reason |-> "Invalid code"]))))
            /\ conns' = [conns EXCEPT ![c].authorized = FALSE]
            /\ UNCHANGED << pairing_vars, authorized_hubs, connected_hub, events >>
    /\ UNCHANGED << track_events, track_writes, mdns, now, send_queue, upload_vars >>

\* --------------------------------------------------- authorization gate
\* The message types dispatched behind `elif not authorized`; "unknown" is
\* any other type (the final else: logged, no reply).
QueryTypes == {"ping", "get_info", "get_config", "get_steam_users",
               "list_shortcuts", "restart_steam", "unknown"}
GatedTypes == QueryTypes \cup {"init_upload", "upload_chunk", "complete_upload",
                               "cancel_upload", "delete_game"}

\* Variant of the gate: cancel_upload is dispatched ahead of the test of
\* `authorized`.
gate_open_cancel(c, msg_type) == conns[c].authorized \/ msg_type = "cancel_upload"

\* handle_connection: a text message other than hub_connected and
\* pair_confirm reaches its handler only when the local `authorized` is set.
gate_open(c, msg_type) == conns[c].authorized

\* handle_connection: a bytes message goes to handle_binary before any test
\* of `authorized`.
binary_gate_open(c) == TRUE

\* `elif not authorized: send_error(401, "Not authorized")`.
not_authorized(c, msg_id, msg_type) ==
    /\ IsOpen(c)
    /\ ~gate_open(c, msg_type)
    /\ enqueue(Step(msg_type, c, msg_id, Nothing,
                    Some(ErrorMsg(msg_id, 401, "Not authorized"))))
    /\ UNCHANGED << track_events, track_writes, mdns, now, conns, pairing_vars, authorized_hubs, connected_hub,
                    send_queue, events, upload_vars >>

\* The reply type of the handlers that only read state.
QueryReply(msg_type) ==
    CASE msg_type = "ping" -> "pong"
      [] msg_type = "get_info" -> "info_response"
      [] msg_type = "get_config" -> "config_response"
      [] msg_type = "get_steam_users" -> "steam_users_response"
      [] msg_type = "list_shortcuts" -> "shortcuts_response"
      [] msg_type = "restart_steam" -> "steam_response"

\* ping, get_info, get_config, get_steam_users, list_shortcuts,
\* restart_steam (the subprocess spawn succeeds or raises) and the final
\* else of the dispatch (no reply).
handle_query(c, msg_id, msg_type, spawned) ==
    /\ IsOpen(c)
    /\ gate_open(c, msg_type)
    /\ enqueue(Step(msg_type, c, msg_id, Nothing,
                    IF msg_type = "unknown" THEN Nothing
                    ELSE Some(Msg(msg_id, QueryReply(msg_type),
                                  IF msg_type = "restart_steam"
                                  THEN [success |-> spawned]
                                  ELSE EmptyMap))))
    /\ UNCHANGED << track_events, track_writes, mdns, now, conns, pairing_vars, authorized_hubs, connected_hub,
                    send_queue, events, upload_vars >>

\* ------------------------------------------------------------ filesystem
\* Paths are sequences of components, read from the filesystem root.  A
\* path the Hub sends is relative unless its first component is "/".
IsPrefix(p, q) == Len(p) <= Len(q) /\ SubSeq(q, 1, Len(p)) = p
IsAbsolute(rel) == rel # << >> /\ Head(rel) = "/"

\* os.path.join(base, rel): an absolute rel discards base; nothing is
\* normalised.
join(base, rel) == IF IsAbsolute(rel) THEN Tail(rel) ELSE base \o rel
dirname(p) == SubSeq(p, 1, Len(p) - 1)

\* The entry a path names when the system resolves it: every ".." steps to
\* the parent (the root is its own parent).
RECURSIVE resolve_from(_, _)
resolve_from(at, p) ==
    IF p = << >> THEN at
    ELSE IF Head(p) = ".."
         THEN resolve_from(SubSeq(at, 1, Len(at) - 1), Tail(p))
         ELSE resolve_from(Append(at, Head(p)), Tail(p))
resolve(p) == resolve_from(<< >>, p)

\* The entries os.makedirs(p) walks through: p and its parents.
walked(p) == {resolve(SubSeq(p, 1, n)) : n \in 1..Len(p)} \ {<< >>}

\* os.makedirs(p, exist_ok=True): p and its missing parents; it raises when
\* one of them exists as a file.
makedirs_raises(files, p) == walked(p) \cap DOMAIN files # {}
makedirs(dirs, p) == dirs \cup walked(p)
IsDir(dirs, p) == p = << >> \/ p \in dirs

\* shutil.rmtree(p): p and everything below it.
rmtree_dirs(dirs, p) == {d \in dirs : ~IsPrefix(p, d)}
rmtree_files_kept(files, p) == files

rmtree_files(files, p) ==
    [f \in {g \in DOMAIN files : ~IsPrefix(p, g)} |-> files[f]]

\* open(full_path, "ab" if offset > 0 else "wb"); seek(offset); write(data).
\* "wb" truncates, so the write lands at 0; in append mode every write goes
\* to the end of the file whatever the seek position.
write_chunk(files, full_path, offset, data) ==
    LET file == resolve(full_path)
        old == IF file \in DOMAIN files THEN files[file] ELSE << >>
        new == IF offset > 0 THEN old \o data ELSE data
    IN [f \in DOMAIN files \cup {file} |->
           IF f = file THEN new ELSE files[f]]

\* ------------------------------------------------ upload session registry
GameNames == {"G"}
TotalSizes == {0, 2}
FilePaths == {<< "a.bin" >>}
FileLists == {<< [path |-> << "a.bin" >>, size |-> 2] >>}
Chunks == {<< "h" >>, << "h", "i" >>}
Offsets == {0, 1}
RandIds == {1000, 1001}
AppIds == {0, 7}
ShortcutConfigs == {Nothing, Some([exe |-> << "bin", "a.bin" >>, name |-> "G"])}

\* An upload id no init_upload returns (the random part is 1000..9999).
NoUpload == << 0, 0 >>
UploadIds == DOMAIN uploads \cup {NoUpload}

\* UploadSession.progress().
progress(session) ==
    IF session.total_size = 0 THEN 100
    ELSE (session.transferred * 100) \div session.total_size

\* handle_init_upload: the id is upload-<int(time)>-<randint>; the session is
\* stored under it (replacing a session of the same id), then the install
\* directory is created.  When os.makedirs raises (the path or a parent is a
\* file) the handler ends there: the session stays, nothing is sent.
handle_init_upload(c, msg_id, game_name, total_size, files, rnd) ==
    /\ IsOpen(c)
    /\ gate_open(c, "init_upload")
    /\ LET upload_id == << now, rnd >>
           session == [id |-> upload_id, game_name |-> game_name,
                       total_size |-> total_size, files |-> files,
                       transferred |-> 0, current_file |-> None,
                       status |-> "active",
                       install_path |-> join(Root, << game_name >>)]
       IN /\ uploads' = [u \in DOMAIN uploads \cup {upload_id} |->
                            IF u = upload_id THEN session ELSE uploads[u]]
          /\ applied' = [u \in DOMAIN uploads \cup {upload_id} |->
                            IF u = upload_id THEN << >> ELSE applied[u]]
          /\ IF makedirs_raises(fs_files, session.install_path)
             THEN /\ enqueue(Step("init_upload", c, msg_id, [gameName |-> game_name],
                                  Nothing))
                  /\ UNCHANGED << fs_dirs, events >>
             ELSE /\ fs_dirs' = makedirs(fs_dirs, session.install_path)
                  /\ events' = notify_frontend(events, "operation_event",
                                   [type |-> "install", status |-> "start",
                                    gameName |-> game_name, progress |-> 0])
                  /\ enqueue(Step("init_upload", c, msg_id, [gameName |-> game_name],
                                  Some(Msg(msg_id, "upload_init_response",
                                           [uploadId |-> upload_id,
                                            chunkSize |-> CHUNK_SIZE]))))
    /\ UNCHANGED << track_events, track_writes, mdns, now, conns, pairing_vars, authorized_hubs, connected_hub,
                    send_queue, fs_files, tracked_shortcuts >>

\* del self.uploads[upload_id].
del_upload_kept(sessions, upload_id) == sessions

del_upload(sessions, upload_id) ==
    [u \in DOMAIN sessions \ {upload_id} |-> sessions[u]]

\* The answer to a request whose uploadId is not in the registry.
upload_not_found_gone(msg_id) == ErrorMsg(msg_id, 410, "Gone")

upload_not_found(msg_id) == ErrorMsg(msg_id, 404, "Upload not found")

\* session.transferred += len(data).
count_chunk_last_only(session, data) == Len(data)

count_chunk(session, data) == session.transferred + Len(data)

\* The part handle_upload_chunk and handle_binary share: look the session up,
\* write the chunk, count it, publish upload_progress, reply.  An exception
\* of os.makedirs (a parent is a file) or of open (the path is a directory)
\* leaves the handler; handle_connection logs it and nothing is sent.
apply_chunk(op, c, msg_id, upload_id, file_path, offset, data) ==
    LET arg == [uploadId |-> upload_id, filePath |-> file_path]
    IN IF upload_id \notin DOMAIN uploads
       THEN /\ enqueue(Step(op, c, msg_id, arg,
                            Some(upload_not_found(msg_id))))
            /\ UNCHANGED << uploads, applied, fs_dirs, fs_files, events >>
       ELSE LET session == uploads[upload_id]
                full_path == join(session.install_path, file_path)
                parent == dirname(full_path)
                transferred == count_chunk(session, data)
            IN IF makedirs_raises(fs_files, parent)
               THEN /\ enqueue(Step(op, c, msg_id, arg, Nothing))
                    /\ UNCHANGED << uploads, applied, fs_dirs, fs_files, events >>
               ELSE IF IsDir(makedirs(fs_dirs, parent), resolve(full_path))
               THEN /\ fs_dirs' = makedirs(fs_dirs, parent)
                    /\ enqueue(Step(op, c, msg_id, arg, Nothing))
                    /\ UNCHANGED << uploads, applied, fs_files, events >>
               ELSE /\ fs_dirs' = makedirs(fs_dirs, parent)
                    /\ fs_files' = write_chunk(fs_files, full_path, offset, data)
                    /\ uploads' = [uploads EXCEPT ![upload_id].transferred = transferred,
                                                  ![upload_id].current_file = file_path]
                    /\ applied' = [applied EXCEPT ![upload_id] = Append(@, Len(data))]
                    /\ events' = notify_frontend(events, "upload_progress",
                                     [uploadId |-> upload_id, transferredBytes |-> transferred,
                                      totalBytes |-> session.total_size,
                                      currentFile |-> file_path,
                                      percentage |-> progress(uploads'[upload_id])])
                    /\ enqueue(Step(op, c, msg_id, arg,
                                    Some(Msg(msg_id, "upload_chunk_response",
                                             [uploadId |-> upload_id, bytesWritten |-> Len(data),
                                              totalWritten |-> transferred]))))

\* handle_upload_chunk: the text variant; data is the decoded payload.
handle_upload_chunk(c, msg_id, upload_id, file_path, offset, data) ==
    /\ IsOpen(c)
    /\ gate_open(c, "upload_chunk")
    /\ apply_chunk("upload_chunk", c, msg_id, upload_id, file_path, offset, data)
    /\ UNCHANGED << track_events, track_writes, mdns, now, conns, pairing_vars, authorized_hubs, connected_hub,
                    send_queue, tracked_shortcuts >>

\* handle_binary: a frame that is too short, whose header is incomplete or
\* is no JSON is logged and dropped; any other is applied.
handle_binary(c, wellformed, msg_id, upload_id, file_path, offset, data) ==
    /\ IsOpen(c)
    /\ binary_gate_open(c)
    /\ IF wellformed
       THEN apply_chunk("binary", c, msg_id, upload_id, file_path, offset, data)
       ELSE /\ enqueue(Step("binary_dropped", c, "", Nothing, Nothing))
            /\ UNCHANGED << uploads, applied, fs_dirs, fs_files, events >>
    /\ UNCHANGED << track_events, track_writes, mdns, now, conns, pairing_vars, authorized_hubs, connected_hub,
                    send_queue, tracked_shortcuts >>

\* handle_cancel_upload: an existing session is marked cancelled, its install
\* directory removed and the session deleted; the reply is always success.
\* shutil.rmtree of a path that is no directory raises, which is logged.
handle_cancel_upload(c, msg_id, upload_id) ==
    /\ IsOpen(c)
    /\ gate_open(c, "cancel_upload")
    /\ IF upload_id \in DOMAIN uploads
       THEN LET session == uploads[upload_id]
                is_dir == IsDir(fs_dirs, session.install_path)
            IN /\ fs_dirs' = IF is_dir THEN rmtree_dirs(fs_dirs, session.install_path)
                             ELSE fs_dirs
               /\ fs_files' = IF is_dir THEN rmtree_files(fs_files, session.install_path)
                              ELSE fs_files
               /\ uploads' = del_upload(uploads, upload_id)
               /\ applied' = [u \in DOMAIN uploads \ {upload_id} |-> applied[u]]
       ELSE UNCHANGED << uploads, applied, fs_dirs, fs_files >>
    /\ enqueue(Step("cancel_upload", c, msg_id,
                    [uploadId |-> upload_id, found |-> upload_id \in DOMAIN uploads],
                    Some(Msg(msg_id, "operation_result", [success |-> TRUE]))))
    /\ UNCHANGED << track_events, track_writes, mdns, now, conns, pairing_vars, authorized_hubs, connected_hub,
                    send_queue, events, tracked_shortcuts >>

\* os.path.basename of a path.
basename(p) == IF Len(p) = 0 THEN << >> ELSE << p[Len(p)] >>

\* handle_complete_upload.  With createShortcut and a non-empty shortcut
\* config the create_shortcut event is published and a record with appId 0
\* appended to tracked_shortcuts; then operation_event complete, the session
\* is deleted and operation_result sent.  (os.chmod of the executable is not
\* modelled: file modes are not part of the state.)
handle_complete_upload(c, msg_id, upload_id, create_shortcut, shortcut_config) ==
    /\ IsOpen(c)
    /\ gate_open(c, "complete_upload")
    /\ IF upload_id \notin DOMAIN uploads
       THEN /\ enqueue(Step("complete_upload", c, msg_id, [uploadId |-> upload_id],
                            Some(upload_not_found(msg_id))))
            /\ UNCHANGED << uploads, applied, events, tracked_shortcuts >>
       ELSE LET session == uploads[upload_id]
                with_shortcut == create_shortcut /\ shortcut_config # Nothing
                exe_path == join(session.install_path, basename(shortcut_config[1].exe))
                shortcut_name == shortcut_config[1].name
                ev1 == IF with_shortcut
                       THEN notify_frontend(events, "create_shortcut",
                                [name |-> shortcut_name, exe |-> exe_path,
                                 startDir |-> session.install_path])
                       ELSE events
            IN /\ tracked_shortcuts' =
                     IF with_shortcut
                     THEN Append(tracked_shortcuts,
                                 [name |-> shortcut_name, exe |-> exe_path,
                                  startDir |-> session.install_path, appId |-> 0,
                                  gameName |-> session.game_name,
                                  installedAt |-> now])
                     ELSE tracked_shortcuts
               /\ events' = notify_frontend(ev1, "operation_event",
                                [type |-> "install", status |-> "complete",
                                 gameName |-> session.game_name, progress |-> 100])
               /\ uploads' = del_upload(uploads, upload_id)
               /\ applied' = [u \in DOMAIN uploads \ {upload_id} |-> applied[u]]
               /\ enqueue(Step("complete_upload", c, msg_id, [uploadId |-> upload_id],
                               Some(Msg(msg_id, "operation_result",
                                        [success |-> TRUE, path |-> session.install_path]))))
    /\ UNCHANGED << track_events, track_writes, mdns, now, conns, pairing_vars, authorized_hubs, connected_hub,
                    send_queue, fs_dirs, fs_files >>

\* [sc for sc in tracked if sc.get("appId") != app_id].
without_app_id_none(tracked, app_id) == tracked

RECURSIVE without_app_id(_, _)
without_app_id(tracked, app_id) ==
    IF tracked = << >> THEN << >>
    ELSE IF Head(tracked).appId # app_id
         THEN << Head(tracked) >> \o without_app_id(Tail(tracked), app_id)
         ELSE without_app_id(Tail(tracked), app_id)

\* handle_delete_game, its four notify_frontend calls in program order.  The
\* handler does not suspend between them (notify_frontend awaits nothing).
delete_game_events(game_name, app_id) ==
    << [event |-> "operation_event",
        data |-> [type |-> "delete", status |-> "start",
                  gameName |-> game_name, progress |-> 0]],
       [event |-> "remove_shortcut", data |-> [appId |-> app_id]],
       [event |-> "operation_event",
        data |-> [type |-> "delete", status |-> "progress",
                  gameName |-> game_name, progress |-> 50]],
       [event |-> "operation_event",
        data |-> [type |-> "delete", status |-> "complete",
                  gameName |-> game_name, progress |-> 100]] >>

\* A run of notify_frontend calls, one after the other.
RECURSIVE publish(_, _)
publish(ev, published) ==
    IF published = << >> THEN ev
    ELSE publish(notify_frontend(ev, Head(published).event, Head(published).data),
                 Tail(published))

\* handle_delete_game: the first tracked record with the appId (default 0)
\* is the game; its startDir is removed when it is a directory, every record
\* with that appId is dropped from tracked_shortcuts, Steam is restarted (the
\* spawn succeeds or raises); of the three operation_events the slot keeps
\* the last.
handle_delete_game(c, msg_id, app_id, spawned) ==
    /\ IsOpen(c)
    /\ gate_open(c, "delete_game")
    /\ LET found == {i \in 1..Len(tracked_shortcuts) : tracked_shortcuts[i].appId = app_id}
       IN IF found = {}
          THEN /\ enqueue(Step("delete_game", c, msg_id, [appId |-> app_id],
                               Some(ErrorMsg(msg_id, 404, "game not found"))))
               /\ UNCHANGED << fs_dirs, fs_files, tracked_shortcuts, events >>
          ELSE LET game == tracked_shortcuts[CHOOSE i \in found : \A j \in found : i <= j]
                   start_dir == game.startDir
                   is_dir == start_dir # << >> /\ start_dir \in fs_dirs
               IN /\ fs_dirs' = IF is_dir THEN rmtree_dirs(fs_dirs, start_dir) ELSE fs_dirs
                  /\ fs_files' = IF is_dir THEN rmtree_files(fs_files, start_dir) ELSE fs_files
                  /\ tracked_shortcuts' = without_app_id(tracked_shortcuts, app_id)
                  /\ events' = publish(events, delete_game_events(game.name, app_id))
                  /\ enqueue(Step("delete_game", c, msg_id,
                                  [appId |-> app_id, spawned |-> spawned],
                                  Some(Msg(msg_id, "operation_result",
                                           [status |-> "deleted", gameName |-> game.name,
                                            steamRestarted |-> spawned]))))
    /\ UNCHANGED << track_events, track_writes, mdns, now, conns, pairing_vars, authorized_hubs, connected_hub,
                    send_queue, uploads, applied >>

\* ------------------------------------------------------ local control API
\* Plugin.get_status, the two fields that depend on the connection.
get_status ==
    [connected |-> connected_hub # Nothing,
     hubName |-> IF connected_hub # Nothing THEN connected_hub[1].name ELSE None]

\* Variant of revoke_hub: the entry is deleted from the dict that was read
\* and the dict is not stored.
revoke_hub_unsaved(hub_id) ==
    /\ no_reply(LocalStep("revoke_hub",
                         [hubId |-> hub_id, result |-> hub_id \in DOMAIN authorized_hubs]))
    /\ UNCHANGED << track_events, track_writes, mdns, now, conns, pairing_vars, authorized_hubs,
                    connected_hub, send_queue, events, upload_vars >>

\* Plugin.revoke_hub: a known hub is deleted from authorized_hubs (returns
\* True), an unknown one changes nothing (returns False).
revoke_hub(hub_id) ==
    /\ authorized_hubs' = [h \in DOMAIN authorized_hubs \ {hub_id} |-> authorized_hubs[h]]
    /\ no_reply(LocalStep("revoke_hub",
                         [hubId |-> hub_id, result |-> hub_id \in DOMAIN authorized_hubs]))
    /\ UNCHANGED << track_events, track_writes, mdns, now, conns, pairing_vars, connected_hub, send_queue, events,
                    upload_vars >>

\* Plugin.set_setting on the key authorized_hubs, with the empty dict.
set_setting_authorized_hubs(value) ==
    /\ authorized_hubs' = value
    /\ no_reply(LocalStep("set_setting", [key |-> "authorized_hubs"]))
    /\ UNCHANGED << track_events, track_writes, mdns, now, conns, pairing_vars, connected_hub, send_queue, events,
                    upload_vars >>

\* Variant of get_event: the slot is read and left as it is.
get_event_peek(event_name) ==
    /\ no_reply(LocalStep("get_event", [name |-> event_name, event |-> events[event_name]]))
    /\ UNCHANGED << track_events, track_writes, mdns, now, conns, pairing_vars, authorized_hubs, connected_hub,
                    send_queue, events, upload_vars >>

\* Plugin.get_event: read the slot and, when it holds an event, set it to None.
get_event(event_name) ==
    /\ events' = [events EXCEPT ![event_name] = Nothing]
    /\ no_reply(LocalStep("get_event", [name |-> event_name, event |-> events[event_name]]))
    /\ UNCHANGED << track_events, track_writes, mdns, now, conns, pairing_vars, authorized_hubs, connected_hub,
                    send_queue, upload_vars >>

\* Plugin.register_shortcut: the first tracked record with appId 0 whose
\* gameName or name is game_name gets the appId; the list is saved.
register_shortcut(game_name, app_id) ==
    /\ LET found == {i \in 1..Len(tracked_shortcuts) :
                        /\ tracked_shortcuts[i].appId = 0
                        /\ \/ tracked_shortcuts[i].gameName = game_name
                           \/ tracked_shortcuts[i].name = game_name}
       IN tracked_shortcuts' =
             IF found = {} THEN tracked_shortcuts
             ELSE [tracked_shortcuts EXCEPT
                      ![CHOOSE i \in found : \A j \in found : i <= j].appId = app_id]
    /\ no_reply(LocalStep("register_shortcut", [gameName |-> game_name, appId |-> app_id]))
    /\ UNCHANGED << track_events, track_writes, mdns, now, conns, pairing_vars, authorized_hubs, connected_hub,
                    send_queue, events, uploads, applied, fs_dirs, fs_files >>

\* Plugin.uninstall_game: the game's folder under the install root is removed
\* when it is a directory.
uninstall_game(game_name) ==
    /\ LET game_path == join(Root, << game_name >>)
           is_dir == game_path \in fs_dirs
       IN /\ fs_dirs' = IF is_dir THEN rmtree_dirs(fs_dirs, game_path) ELSE fs_dirs
          /\ fs_files' = IF is_dir THEN rmtree_files(fs_files, game_path) ELSE fs_files
          /\ no_reply(LocalStep("uninstall_game", [gameName |-> game_name, result |-> is_dir]))
    /\ UNCHANGED << track_events, track_writes, mdns, now, conns, pairing_vars, authorized_hubs, connected_hub,
                    send_queue, events, uploads, applied, tracked_shortcuts >>

\* ------------------------------------------------------- time and restart
\* Wall-clock time passes.
Tick(d) ==
    /\ now + d <= MaxTime
    /\ now' = now + d
    /\ no_reply(LocalStep("tick", Nothing))
    /\ UNCHANGED << track_events, track_writes, mdns, conns, pairing_vars, authorized_hubs, connected_hub,
                    send_queue, events, upload_vars >>

\* Variant of the restart: the authorized hubs live in memory only.
RestartForgets ==
    /\ conns' = [c \in Conns |-> NewConn]
    /\ pending_code' = None
    /\ pending_hub_id' = None
    /\ pending_hub_name' = None
    /\ code_expires_at' = 0
    /\ connected_hub' = Nothing
    /\ send_queue' = 0
    /\ uploads' = EmptyMap
    /\ applied' = EmptyMap
    /\ fs_dirs' = makedirs(fs_dirs, Root)
    /\ authorized_hubs' = EmptyMap
    /\ queues' = EmptyQueues
    /\ getters' = EmptyQueues
    /\ pumps' = NoPumps
    /\ write_task' = 0
    /\ written' = EmptyQueues
    /\ enq' = EmptyQueues
    /\ last' = LocalStep("restart", Nothing)
    /\ mdns' = MainStarted
    /\ UNCHANGED << track_events, track_writes, now, events, fs_files, tracked_shortcuts >>

\* The process ends and Plugin._main runs again: a new PairingManager and a
\* new WebSocketServer (no pending pairing, no connected hub, empty registry,
\* no connection); the settings file and the disk are as they were.
Restart ==
    /\ conns' = [c \in Conns |-> NewConn]
    /\ pending_code' = None
    /\ pending_hub_id' = None
    /\ pending_hub_name' = None
    /\ code_expires_at' = 0
    /\ connected_hub' = Nothing
    /\ send_queue' = 0
    /\ uploads' = EmptyMap
    /\ applied' = EmptyMap
    /\ fs_dirs' = makedirs(fs_dirs, Root)
    /\ queues' = EmptyQueues
    /\ getters' = EmptyQueues
    /\ pumps' = NoPumps
    /\ write_task' = 0
    /\ written' = EmptyQueues
    /\ enq' = EmptyQueues
    /\ last' = LocalStep("restart", Nothing)
    /\ mdns' = MainStarted
    /\ UNCHANGED << track_events, track_writes, now, authorized_hubs, events, fs_files, tracked_shortcuts >>

\* ------------------------------------------------------------ next state
\* The inputs a specification draws from: the connections that open, the
\* request ids, hub ids, tokens, codes and gated message types they send, and
\* the payloads of the upload messages.
Inputs(cs, ids, hubs, tokens, codes, types, up) ==
    [conns |-> cs, ids |-> ids, hubs |-> hubs, tokens |-> tokens, codes |-> codes,
     types |-> types, up |-> up]
UploadInputs(sizes, rands, paths, offsets, chunks, configs, apps, max_uploads, max_bytes, max_tracked) ==
    [sizes |-> sizes, rands |-> rands, paths |-> paths, offsets |-> offsets,
     chunks |-> chunks, configs |-> configs, apps |-> apps,
     max_uploads |-> max_uploads, max_bytes |-> max_bytes,
     max_tracked |-> max_tracked]

\* The bounds of a specification, as guards on what the Hub sends: the number
\* of sessions in the registry, the bytes a session and a file take, and the
\* length of tracked_shortcuts.
CanOpenUpload(I, rnd) ==
    Cardinality(DOMAIN uploads \cup {<< now, rnd >>}) <= I.up.max_uploads
CanWrite(I, upload_id, data) ==
    upload_id \in DOMAIN uploads =>
        /\ uploads[upload_id].transferred + Len(data) <= I.up.max_bytes
        /\ \A f \in DOMAIN fs_files : Len(fs_files[f]) + Len(data) <= I.up.max_bytes
CanTrack(I, upload_id, create_shortcut, shortcut_config) ==
    (upload_id \in DOMAIN uploads /\ create_shortcut /\ shortcut_config # Nothing) =>
        Len(tracked_shortcuts) < I.up.max_tracked

Open(I) == \E c \in I.conns : connection_open(c)
Closing(I) == \E c \in I.conns : connection_closing(c)
Closed(I) == \E c \in I.conns : connection_closed(c)
HubConnected(I) ==
    \E c \in I.conns, i \in I.ids, h \in I.hubs \cup {""}, n \in HubNames,
       v \in HubVersions, t \in I.tokens \cup {""} :
        handle_hub_connected(c, i, h, n, v, t)
PairConfirm(I) ==
    \E c \in I.conns, i \in I.ids, code \in I.codes \cup {""} :
        handle_pair_confirm(c, i, code)
NotAuthorized(I) ==
    \E c \in I.conns, i \in I.ids, t \in I.types : not_authorized(c, i, t)
Query(I) ==
    \E c \in I.conns, i \in I.ids, t \in I.types \cap QueryTypes, ok \in BOOLEAN :
        handle_query(c, i, t, ok)
InitUpload(I) ==
    \E c \in I.conns, i \in I.ids, g \in GameNames, n \in I.up.sizes, f \in FileLists,
       r \in I.up.rands :
        CanOpenUpload(I, r) /\ handle_init_upload(c, i, g, n, f, r)
UploadChunk(I) ==
    \E c \in I.conns, i \in I.ids, u \in UploadIds, f \in I.up.paths,
       o \in I.up.offsets, d \in I.up.chunks :
        CanWrite(I, u, d) /\ handle_upload_chunk(c, i, u, f, o, d)
Binary(I) ==
    \E c \in I.conns, i \in I.ids, u \in UploadIds, f \in I.up.paths,
       o \in I.up.offsets, d \in I.up.chunks :
        CanWrite(I, u, d) /\ handle_binary(c, TRUE, i, u, f, o, d)
BinaryDropped(I) ==
    \E c \in I.conns : handle_binary(c, FALSE, "", NoUpload, << >>, 0, << >>)
CancelUpload(I) ==
    \E c \in I.conns, i \in I.ids, u \in UploadIds : handle_cancel_upload(c, i, u)
CompleteUpload(I) ==
    \E c \in I.conns, i \in I.ids, u \in UploadIds, cs \in BOOLEAN,
       sc \in I.up.configs :
        CanTrack(I, u, cs, sc) /\ handle_complete_upload(c, i, u, cs, sc)
DeleteGame(I) ==
    \E c \in I.conns, i \in I.ids, a \in I.up.apps, ok \in BOOLEAN :
        handle_delete_game(c, i, a, ok)
RevokeHub(I) == \E h \in I.hubs : revoke_hub(h)
SetSetting == set_setting_authorized_hubs(EmptyMap)
GetEvent == \E e \in EventNames : get_event(e)
RegisterShortcut == \E g \in GameNames, a \in AppIds \ {0} : register_shortcut(g, a)
UninstallGame == \E g \in GameNames : uninstall_game(g)
Advance == \E d \in TickSteps : Tick(d)

AllUploads ==
    UploadInputs(TotalSizes, RandIds, FilePaths, Offsets, Chunks, ShortcutConfigs, AppIds,
                 MaxUploads, MaxBytes, MaxTracked)
OneUpload ==
    UploadInputs({2}, {1000}, FilePaths, {0}, {<< "h" >>},
                 {Some([exe |-> << "bin", "a.bin" >>, name |-> "G"])}, {0},
                 1, GateBytes, GateTracked)

\* Tokens with the clock standing still: one connection at a time pairs two
\* hubs and presents tokens, sends gated requests and is answered or refused;
\* revocation and restart.
TokenInputs == Inputs({1}, {"1"}, HubIds, Tokens, {"111111"}, {"ping"}, OneUpload)
NextToken ==
    \/ Open(TokenInputs) \/ Closing(TokenInputs) \/ Closed(TokenInputs)
    \/ HubConnected(TokenInputs) \/ PairConfirm(TokenInputs)
    \/ NotAuthorized(TokenInputs) \/ Query(TokenInputs)
    \/ RevokeHub(TokenInputs) \/ Restart
SpecToken == InitNoEvents /\ [][NextToken]_vars

\* Pairing on concurrent connections with the clock standing still: two hubs
\* and two codes on every connection; the connections stay open.
PairInputs == Inputs(Conns, {"1"}, HubIds, {"Ta"}, Codes, {"ping"}, OneUpload)
NextPair ==
    \/ Open(PairInputs)
    \/ HubConnected(PairInputs) \/ PairConfirm(PairInputs)
SpecPair == InitNoEvents /\ [][NextPair]_vars

\* Pairing against the wall clock: codes are generated, confirmed and expire.
ExpiryInputs == Inputs(Conns, {"1"}, {"H1"}, {"Ta"}, Codes, {"ping"}, OneUpload)
NextExpiry ==
    \/ Open(ExpiryInputs) \/ Closing(ExpiryInputs) \/ Closed(ExpiryInputs)
    \/ HubConnected(ExpiryInputs) \/ PairConfirm(ExpiryInputs)
    \/ Advance
SpecExpiry == InitNoEvents /\ [][NextExpiry]_vars

\* The dispatch: every message type, text and binary, on two concurrent
\* connections that stay open, one hub, the clock standing still.  The
\* unauthorized reply is drawn for every gated type, and for two request ids.
GateConns == {1, 2}
GateInputs ==
    Inputs(GateConns, {"1"}, {"H1"}, {"Ta"}, {"111111"},
           {"ping", "restart_steam", "unknown"}, OneUpload)
GateTypes == Inputs(GateConns, {"1"}, {"H1"}, {"Ta"}, {"111111"}, GatedTypes, OneUpload)
GateIds == Inputs(GateConns, MsgIds, {"H1"}, {"Ta"}, {"111111"}, {"ping"}, OneUpload)
NextGate ==
    \/ Open(GateInputs)
    \/ HubConnected(GateInputs) \/ PairConfirm(GateInputs)
    \/ NotAuthorized(GateTypes) \/ NotAuthorized(GateIds)
    \/ Query(GateInputs) \/ Query(GateIds)
    \/ InitUpload(GateInputs) \/ UploadChunk(GateInputs)
    \/ Binary(GateInputs) \/ BinaryDropped(GateInputs)
    \/ CancelUpload(GateInputs) \/ CompleteUpload(GateInputs)
    \/ DeleteGame(GateInputs)
SpecGate == InitNoEvents /\ [][NextGate]_vars

\* The write path: connections open and close, send requests that are
\* answered (unpaired, every request gets the 401 frame with its id), and
\* the write pumps run.  At most MaxConns connections are ever made (a slot
\* is not taken twice); a connection sends at most MaxFrames requests and
\* numbers them: its n-th request carries the id n.
QueueInputs == Inputs(Conns, MsgIds, {"H1"}, {"Ta"}, {"111111"}, {"ping"}, OneUpload)
Request(I) ==
    \E c \in I.conns, t \in I.types :
        /\ Len(enq[c]) < MaxFrames
        /\ not_authorized(c, ToString(Len(enq[c]) + 1), t)
OpenFresh(I) == \E c \in I.conns : pumps[c].st = "none" /\ connection_open(c)
PumpResume(I) == \E p \in I.conns : write_pump_resume(p)
PumpSent(I) == \E p \in I.conns : write_pump_sent(p)
NextQueue ==
    \/ OpenFresh(QueueInputs) \/ Closing(QueueInputs) \/ Closed(QueueInputs)
    \/ Request(QueueInputs)
    \/ PumpResume(QueueInputs) \/ PumpSent(QueueInputs)
SpecQueue == InitWrites /\ [][NextQueue]_vars


\* Uploads: one connection that pairs and stays open, the clock standing
\* still; sessions are opened, fed by text and binary chunks, cancelled and
\* completed.  Chunks go to a plain file name; a chunk whose path is ".."
\* names a directory, its write raises whatever its size.
UpSessions == 1
UpBytes == 2
UpTracked == 1
UpPaths == {<< "a.bin" >>}
Unwritable == << ".." >>
UpInputs ==
    Inputs({1}, {"1"}, {"H1"}, {"Ta"}, {"111111"}, {"ping"},
           UploadInputs({2}, RandIds, UpPaths, {0}, Chunks,
                        {Some([exe |-> << "bin", "a.bin" >>, name |-> "G"])}, {0},
                        UpSessions, UpBytes, UpTracked))
ChunkRaises(I) ==
    \E c \in I.conns, i \in I.ids, u \in UploadIds, d \in I.up.chunks :
        \/ handle_upload_chunk(c, i, u, Unwritable, 0, d)
        \/ handle_binary(c, TRUE, i, u, Unwritable, 0, d)
\* Requests that name an id init_upload gave out (or could have) and that is
\* not, or no longer, in the registry.
IssuedIds(I) == {<< now, r >> : r \in I.up.rands}
Stale(I) ==
    \E c \in I.conns, i \in I.ids, u \in IssuedIds(I) \ DOMAIN uploads,
       f \in I.up.paths, d \in I.up.chunks, sc \in I.up.configs :
        \/ handle_upload_chunk(c, i, u, f, 0, d)
        \/ handle_binary(c, TRUE, i, u, f, 0, d)
        \/ handle_complete_upload(c, i, u, TRUE, sc)
        \/ handle_cancel_upload(c, i, u)
NextUpload ==
    \/ Open(UpInputs)
    \/ HubConnected(UpInputs) \/ PairConfirm(UpInputs)
    \/ InitUpload(UpInputs) \/ UploadChunk(UpInputs)
    \/ Binary(UpInputs) \/ BinaryDropped(UpInputs) \/ ChunkRaises(UpInputs)
    \/ CancelUpload(UpInputs) \/ CompleteUpload(UpInputs)
    \/ Stale(UpInputs)
SpecUpload == InitNoEvents /\ [][NextUpload]_vars


\* Uploads and the disk: one connection that pairs and stays open; two
\* sessions of the same game; chunk paths that are a plain file name, a path
\* through ".." and an absolute path; games deleted and uninstalled.
DiskPaths == {<< "a.bin" >>, << "..", "b.bin" >>, << "/", "b.bin" >>}
DiskInputs ==
    Inputs({1}, {"1"}, {"H1"}, {"Ta"}, {"111111"}, {"ping"},
           UploadInputs({2}, RandIds, DiskPaths, {0}, {<< "h" >>},
                        {Some([exe |-> << "bin", "a.bin" >>, name |-> "G"])}, {0},
                        MaxUploads, GateBytes, GateTracked))
NextDisk ==
    \/ Open(DiskInputs)
    \/ HubConnected(DiskInputs) \/ PairConfirm(DiskInputs)
    \/ InitUpload(DiskInputs) \/ UploadChunk(DiskInputs) \/ Binary(DiskInputs)
    \/ CancelUpload(DiskInputs) \/ CompleteUpload(DiskInputs)
    \/ DeleteGame(DiskInputs) \/ UninstallGame
SpecDisk == InitNoEvents /\ [][NextDisk]_vars


\* Events: one connection that pairs and stays open, the event slots kept;
\* a session is opened, fed, completed with and without a shortcut, or
\* cancelled; stale ids are named again; games are deleted.
EvInputs ==
    Inputs({1}, {"1"}, {"H1"}, {"Ta"}, {"111111"}, {"ping"},
           UploadInputs({2}, {1000}, FilePaths, {0}, {<< "h" >>},
                        ShortcutConfigs, {0}, UpSessions, UpBytes, UpTracked))
NextEvents ==
    \/ Open(EvInputs)
    \/ HubConnected(EvInputs) \/ PairConfirm(EvInputs)
    \/ InitUpload(EvInputs) \/ UploadChunk(EvInputs)
    \/ CancelUpload(EvInputs) \/ CompleteUpload(EvInputs)
    \/ Stale(EvInputs)
    \/ DeleteGame(EvInputs)
SpecEvents == InitWith(TRUE) /\ [][NextEvents]_vars


\* Resumption: connection 1 pairs, opens sessions and writes chunks, and
\* closes; connection 2 pairs and sends chunks and complete_upload for the
\* ids in the registry.  Sessions are opened on connection 1 only, so while
\* connection 1 is closed every session in the registry was opened by a
\* connection that has disconnected.
ResumeUpload ==
    UploadInputs({2}, {1000}, FilePaths, {0}, {<< "h" >>},
                 {Some([exe |-> << "bin", "a.bin" >>, name |-> "G"])}, {0},
                 UpSessions, UpBytes, UpTracked)
OpenerInputs == Inputs({1}, {"1"}, {"H1"}, {"Ta"}, {"111111"}, {"ping"}, ResumeUpload)
LaterInputs == Inputs({2}, {"1"}, {"H1"}, {"Ta"}, {"111111"}, {"ping"}, ResumeUpload)
NextResume ==
    \/ Open(OpenerInputs) \/ Closing(OpenerInputs) \/ Closed(OpenerInputs)
    \/ HubConnected(OpenerInputs) \/ PairConfirm(OpenerInputs)
    \/ InitUpload(OpenerInputs) \/ UploadChunk(OpenerInputs)
    \/ Open(LaterInputs)
    \/ HubConnected(LaterInputs) \/ PairConfirm(LaterInputs)
    \/ UploadChunk(LaterInputs) \/ Binary(LaterInputs)
    \/ CompleteUpload(LaterInputs)
SpecResume == InitNoEvents /\ [][NextResume]_vars


\* The event slots and their reader: one connection pairs, is closed and
\* reopened while the clock advances, so events are published at different
\* times; the UI drains the slots in any order at any time.
DrainInputs == Inputs({1}, {"1"}, {"H1"}, {"Ta"}, {"111111"}, {"ping"}, OneUpload)
NextDrain ==
    \/ Open(DrainInputs) \/ Closing(DrainInputs) \/ Closed(DrainInputs)
    \/ HubConnected(DrainInputs) \/ PairConfirm(DrainInputs)
    \/ GetEvent \/ Advance
SpecDrain == InitWith(TRUE) /\ [][NextDrain]_vars


\* The advertiser: the UI switches the agent on and off while the
\* registration threads run; at most MaxServices MDNSService objects are made.
SetEnabled == set_enabled_true \/ set_enabled_false
RegisterInThread == \E k \in 1..MaxServices : register_in_thread(k)
NextAdvertiser == SetEnabled \/ RegisterInThread
SpecAdvertiser == InitNoEvents /\ [][NextAdvertiser]_vars

\* Tracked games: one connection that pairs and stays open installs two games
\* one after the other, each with a shortcut; the UI assigns an appId to a
\* game or not; games are deleted by appId, the default 0 included.
TrackedGames == {"G", "K"}
TrackedInputs ==
    Inputs({1}, {"1"}, {"H1"}, {"Ta"}, {"111111"}, {"ping"},
           UploadInputs({0}, {1000}, FilePaths, {0}, {<< "h" >>},
                        {Some([exe |-> << "bin", "a.bin" >>, name |-> g]) : g \in TrackedGames},
                        AppIds, 1, GateBytes, MaxTracked))
InitGame(I) ==
    \E c \in I.conns, i \in I.ids, g \in TrackedGames, n \in I.up.sizes, f \in FileLists,
       r \in I.up.rands :
        CanOpenUpload(I, r) /\ handle_init_upload(c, i, g, n, f, r)
RegisterGame == \E g \in TrackedGames, a \in AppIds \ {0} : register_shortcut(g, a)
NextTracked ==
    \/ Open(TrackedInputs)
    \/ HubConnected(TrackedInputs) \/ PairConfirm(TrackedInputs)
    \/ InitGame(TrackedInputs) \/ CompleteUpload(TrackedInputs)
    \/ RegisterGame
    \/ DeleteGame(TrackedInputs)
SpecTracked == InitNoEvents /\ [][NextTracked]_vars

\* Everything together.
AllInputs == Inputs(Conns, MsgIds, HubIds, Tokens, Codes, GatedTypes, AllUploads)
Next ==
    \/ Open(AllInputs) \/ Closing(AllInputs) \/ Closed(AllInputs)
    \/ HubConnected(AllInputs) \/ PairConfirm(AllInputs)
    \/ NotAuthorized(AllInputs) \/ Query(AllInputs)
    \/ InitUpload(AllInputs) \/ UploadChunk(AllInputs)
    \/ Binary(AllInputs) \/ BinaryDropped(AllInputs)
    \/ CancelUpload(AllInputs) \/ CompleteUpload(AllInputs)
    \/ DeleteGame(AllInputs)
    \/ RevokeHub(AllInputs) \/ SetSetting \/ GetEvent
    \/ RegisterShortcut \/ UninstallGame
    \/ PumpResume(AllInputs) \/ PumpSent(AllInputs)
    \/ SetEnabled \/ RegisterInThread
    \/ Advance \/ Restart
Spec == Init /\ [][Next]_vars

\* ================================================================ claims
\* The first frame a step queued, and what it means for a hub to hold a valid
\* token in a given authorized_hubs dict.
Frame(step) == step.reply[1]
HoldsToken(hubs, hub_id, token) ==
    hub_id \in DOMAIN hubs /\ hubs[hub_id].token = token
IsPairConfirm(step) == step.op = "pair_confirm"
Succeeded(step) == Frame(step).type = "pair_success"

\* C1: a text message of any type other than hub_connected and pair_confirm
\* that arrives on a connection whose `authorized` is false is answered with
\* error 401 "Not authorized" carrying the request id; no handler runs: the
\* upload registry, the tracked shortcuts and the disk are unchanged, and the
\* connection stays open and unauthorized.
C1_UnauthorizedRefused ==
    [][ (last'.op \in GatedTypes /\ ~conns[last'.conn].authorized) =>
            /\ last'.reply = Some(ErrorMsg(last'.id, 401, "Not authorized"))
            /\ UNCHANGED << uploads, tracked_shortcuts, fs_dirs, fs_files >>
            /\ UNCHANGED << conns, pairing_vars, authorized_hubs, connected_hub >>
      ]_vars

\* C1, its case: cancel_upload was refused on an unauthorized connection while
\* another connection is authorized and an upload session is registered.
C1_Witness ==
    /\ last.op = "cancel_upload"
    /\ last.reply = Some(ErrorMsg(last.id, 401, "Not authorized"))
    /\ ~conns[last.conn].authorized
    /\ \E c \in Conns : conns[c].authorized
    /\ DOMAIN uploads # {}

\* C2 as the specification states it: a binary frame received on a connection
\* whose `authorized` is false is never applied (no session is advanced, no
\* byte reaches the disk).
C2_BinaryGated ==
    [][ (last'.op = "binary" /\ ~conns[last'.conn].authorized) =>
            UNCHANGED << uploads, fs_dirs, fs_files >>
      ]_vars

\* C3 as the specification states it: at most one open connection is
\* authorized at any time.
C3_OneAuthorized ==
    Cardinality({c \in Conns : conns[c].st = "open" /\ conns[c].authorized}) <= 1

\* C4: pair_confirm succeeds (a token is returned, the connection becomes
\* authorized) exactly when a pending pairing exists, now <= its expiry, the
\* connection's hub is the pending hub and the code is the pending code; in
\* every other case authorized_hubs and the pending pairing are unchanged.  A
\* connection that has no hub id never becomes authorized by pair_confirm.
C4_ValidateCode ==
    [][ IsPairConfirm(last') =>
          LET c == last'.conn
              ok == /\ pending_code # None
                    /\ now <= code_expires_at
                    /\ conns[c].hub_id = pending_hub_id
                    /\ last'.arg.code = pending_code
          IN /\ Succeeded(last') <=> ok
             /\ conns'[c].authorized <=> ok
             /\ ~ok => UNCHANGED << authorized_hubs, pairing_vars >>
             /\ conns[c].hub_id = None => ~conns'[c].authorized
      ]_vars

\* C4, its case: a connection that never identified a hub presented the
\* pending code before its expiry and was refused.
C4_Witness ==
    /\ IsPairConfirm(last)
    /\ Frame(last).type = "pair_failed"
    /\ conns[last.conn].hub_id = None
    /\ pending_code # None
    /\ last.arg.code = pending_code
    /\ now <= code_expires_at

\* C5: after a successful pair_confirm of hub H that returned token T,
\* validate_token(H, T) holds; a restart keeps authorized_hubs; a later
\* hub_connected with {H, T} is answered with agent_status, authorizes the
\* connection, records H as the connected hub and leaves the pending pairing
\* as it is.
C5_TokenReconnect ==
    [][ /\ (IsPairConfirm(last') /\ Succeeded(last')) =>
              HoldsToken(authorized_hubs', conns[last'.conn].hub_id,
                         Frame(last').payload.token)
        /\ last'.op = "restart" => authorized_hubs' = authorized_hubs
        /\ (/\ last'.op = "hub_connected"
            /\ last'.arg.token # ""
            /\ HoldsToken(authorized_hubs, last'.arg.hubId, last'.arg.token)) =>
              /\ last'.reply = Some(Msg(last'.id, "agent_status", AgentStatus))
              /\ conns'[last'.conn].authorized
              /\ conns'[last'.conn].hub_id = last'.arg.hubId
              /\ connected_hub' # Nothing
              /\ connected_hub'[1].id = last'.arg.hubId
              /\ UNCHANGED pairing_vars
      ]_vars

\* C5, its case: a hub reconnected with its token after the agent restarted
\* (only a restart puts code_expires_at back to 0 once a hub has paired).
C5_Witness ==
    /\ last.op = "hub_connected"
    /\ Frame(last).type = "agent_status"
    /\ HoldsToken(authorized_hubs, last.arg.hubId, last.arg.token)
    /\ conns[last.conn].authorized
    /\ code_expires_at = 0

\* C6 as the specification states it: a token of hub H stays valid over
\* every step that is not revoke_hub(H).
C6_ValidUntilRevoked ==
    [][ \A h \in HubIds, t \in Tokens :
          (/\ HoldsToken(authorized_hubs, h, t)
           /\ ~(last'.op = "revoke_hub" /\ last'.arg.hubId = h)) =>
              HoldsToken(authorized_hubs', h, t)
      ]_vars

\* C6, amended: a token of hub H stays valid over every step that is neither
\* revoke_hub(H) nor a successful pair_confirm of H itself (which stores a
\* new token in place of the old one).
C6_ValidUntilRevokedOrRepaired ==
    [][ \A h \in HubIds, t \in Tokens :
          (/\ HoldsToken(authorized_hubs, h, t)
           /\ ~(last'.op = "revoke_hub" /\ last'.arg.hubId = h)
           /\ ~(/\ IsPairConfirm(last') /\ Succeeded(last')
                /\ conns[last'.conn].hub_id = h)) =>
              HoldsToken(authorized_hubs', h, t)
      ]_vars

\* C6, its case: a second hub has just paired and the first hub's token is
\* still stored.
C6_Witness ==
    /\ IsPairConfirm(last)
    /\ Succeeded(last)
    /\ \E h \in HubIds \ {conns[last.conn].hub_id}, t \in Tokens :
          HoldsToken(authorized_hubs, h, t)

\* C7: a successful pair_confirm clears the pending pairing, and while no
\* pending pairing exists every pair_confirm (any code, any connection) fails
\* and stores nothing.
C7_SingleUse ==
    [][ /\ (IsPairConfirm(last') /\ Succeeded(last')) =>
              /\ pending_code' = None
              /\ pending_hub_id' = None
        /\ (IsPairConfirm(last') /\ pending_code = None) =>
              /\ Frame(last').type = "pair_failed"
              /\ ~conns'[last'.conn].authorized
              /\ authorized_hubs' = authorized_hubs
      ]_vars

\* C7, its case: a hub that has paired presented a code again, no new code
\* having been generated, and was refused.
C7_Witness ==
    /\ IsPairConfirm(last)
    /\ Frame(last).type = "pair_failed"
    /\ last.arg.code \in Codes
    /\ pending_code = None
    /\ conns[last.conn].hub_id \in DOMAIN authorized_hubs

\* C8: generate_code replaces the pending pairing: after a hub_connected that
\* is answered with pairing_required the pending pairing is that hub's, with
\* the code just sent and a fresh expiry; a pair_confirm whose hub or code is
\* not the pending one fails.
C8_OnePending ==
    [][ /\ (last'.op = "hub_connected" /\ Frame(last').type = "pairing_required") =>
              /\ pending_code' = Frame(last').payload.code
              /\ pending_hub_id' = last'.arg.hubId
              /\ code_expires_at' = now + PAIRING_CODE_EXPIRY
        /\ (/\ IsPairConfirm(last')
            /\ \/ conns[last'.conn].hub_id # pending_hub_id
               \/ last'.arg.code # pending_code) =>
              /\ Frame(last').type = "pair_failed"
              /\ ~conns'[last'.conn].authorized
      ]_vars

\* C8, its case: a hub that was given a code presented a code after the
\* pending pairing had been replaced by another hub's, and was refused.
C8_Witness ==
    /\ IsPairConfirm(last)
    /\ Frame(last).type = "pair_failed"
    /\ last.arg.code \in Codes
    /\ pending_code # None
    /\ conns[last.conn].hub_id \in HubIds \ {pending_hub_id}
    /\ conns[last.conn].hub_id \notin DOMAIN authorized_hubs

\* C9: a pair_confirm with the pending code from the pending hub made after
\* the expiry time is answered with pair_failed "Invalid code" and authorizes
\* nothing; a hub_connected that names a hub and has no valid token issues a
\* new code that expires PAIRING_CODE_EXPIRY seconds later and that this
\* connection can confirm.
C9_Expiry ==
    [][ /\ (/\ IsPairConfirm(last')
            /\ pending_code # None
            /\ last'.arg.code = pending_code
            /\ conns[last'.conn].hub_id = pending_hub_id
            /\ now > code_expires_at) =>
              /\ last'.reply =
                    Some(Msg(last'.id, "pair_failed", [reason |-> "Invalid code"]))
              /\ ~conns'[last'.conn].authorized
              /\ authorized_hubs' = authorized_hubs
        /\ (/\ last'.op = "hub_connected"
            /\ last'.arg.hubId # ""
            /\ ~(/\ last'.arg.token # ""
                 /\ HoldsToken(authorized_hubs, last'.arg.hubId, last'.arg.token))) =>
              /\ Frame(last').type = "pairing_required"
              /\ Frame(last').payload.expiresIn = PAIRING_CODE_EXPIRY
              /\ pending_code' = Frame(last').payload.code
              /\ pending_hub_id' = conns'[last'.conn].hub_id
              /\ code_expires_at' = now' + PAIRING_CODE_EXPIRY
      ]_vars

\* C9, its case: the pending code was presented by its hub after the expiry
\* time and refused.
C9_Witness ==
    /\ IsPairConfirm(last)
    /\ Frame(last).type = "pair_failed"
    /\ pending_code # None
    /\ last.arg.code = pending_code
    /\ conns[last.conn].hub_id = pending_hub_id
    /\ now > code_expires_at

\* C10: a pair_confirm that fails is answered with pair_failed, leaves the
\* connection open, unauthorized and with its hub id, and leaves the pending
\* pairing as it is; a pair_confirm with the pending code from the pending
\* hub at or before the expiry time succeeds.
C10_FailedConfirm ==
    [][ /\ (IsPairConfirm(last') /\ ~Succeeded(last')) =>
              /\ last'.reply =
                    Some(Msg(last'.id, "pair_failed", [reason |-> "Invalid code"]))
              /\ UNCHANGED pairing_vars
              /\ conns'[last'.conn].st = "open"
              /\ conns'[last'.conn].hub_id = conns[last'.conn].hub_id
              /\ ~conns'[last'.conn].authorized
        /\ (/\ IsPairConfirm(last')
            /\ pending_code # None
            /\ last'.arg.code = pending_code
            /\ conns[last'.conn].hub_id = pending_hub_id
            /\ now <= code_expires_at) =>
              /\ Succeeded(last')
              /\ conns'[last'.conn].authorized
      ]_vars

\* C10, its case: the hub the pending code was generated for presented a
\* wrong code before the expiry time; the pairing is still pending.
C10_Witness ==
    /\ IsPairConfirm(last)
    /\ Frame(last).type = "pair_failed"
    /\ pending_code # None
    /\ last.arg.code # pending_code
    /\ conns[last.conn].hub_id = pending_hub_id
    /\ ~conns[last.conn].authorized
    /\ now <= code_expires_at

\* C11 as the specification states it: a hub_connected without hubId is
\* answered error 401 "hub_id required", generates no code, publishes no
\* event and leaves the connection's locals (authorized, hub_id), the pending
\* pairing and connected_hub unchanged.
C11_NoHubIdChangesNothing ==
    [][ (last'.op = "hub_connected" /\ last'.arg.hubId = "") =>
            /\ last'.reply = Some(ErrorMsg(last'.id, 401, "hub_id required"))
            /\ UNCHANGED << pairing_vars, connected_hub, events >>
            /\ conns'[last'.conn] = conns[last'.conn]
      ]_vars

\* C12 as the specification states it: after a successful pair_confirm
\* connected_hub holds the hub that paired, under the id and the name of its
\* hub_connected, and get_status reports connected with that name.
C12_ConnectedHubNamed ==
    [][ (IsPairConfirm(last') /\ Succeeded(last')) =>
            /\ connected_hub' # Nothing
            /\ connected_hub'[1].id = pending_hub_id
            /\ connected_hub'[1].name = pending_hub_name
            /\ get_status'.connected
            /\ get_status'.hubName = pending_hub_name
      ]_vars

\* C13 as the specification states it: once every connection has closed,
\* connected_hub is empty.
C13_ResetOnClose ==
    (\A c \in Conns : conns[c].st = "closed") => connected_hub = Nothing

\* C14 as the specification states it: the replies written to a connection's
\* socket are the replies its handlers queued, in the order they were queued,
\* none left out before a later one and none written twice.
C14_RepliesInOrder ==
    \A c \in Conns :
        LET mine == SelectSeq(written[c], LAMBDA it : it.from = c)
        IN /\ Len(mine) <= Len(enq[c])
           /\ \A i \in 1..Len(mine) : mine[i].frame[1] = enq[c][i]

\* C15 as the specification states it: a frame written to a socket is a reply
\* to a message received on that connection.
C15_OwnSocket ==
    \A s \in Conns : \A i \in 1..Len(written[s]) : written[s][i].from = s

\* The sum of a sequence of lengths.
RECURSIVE Sum(_)
Sum(lengths) == IF lengths = << >> THEN 0 ELSE Head(lengths) + Sum(Tail(lengths))

\* C16: for every session in the registry, transferred is the sum of the
\* lengths of the chunks, text and binary, written for it since it was
\* opened; a chunk that ended in an error adds nothing.
C16_TransferredIsSum ==
    \A u \in DOMAIN uploads : uploads[u].transferred = Sum(applied[u])

\* C16, its case: a session has taken two chunks, and the chunk just handled
\* for it raised (its path names a directory) and was not counted.
C16_Witness ==
    /\ last.op \in {"upload_chunk", "binary"}
    /\ last.reply = Nothing
    /\ last.arg.uploadId \in DOMAIN uploads
    /\ Len(applied[last.arg.uploadId]) = 2
    /\ uploads[last.arg.uploadId].transferred = 2

\* A chunk path the specification calls unsafe: absolute, or with a ".."
\* component.
Unsafe(file_path) ==
    IsAbsolute(file_path) \/ \E i \in 1..Len(file_path) : file_path[i] = ".."
IsChunk(step) == step.op \in {"upload_chunk", "binary"}

\* C17 as the specification states it: a chunk for a registered session
\* whose filePath is absolute or contains ".." is answered with an error,
\* creates no directory and writes no byte; the file of every accepted chunk
\* lies under the session's installPath.
C17_PathSafety ==
    [][ (IsChunk(last') /\ last'.arg.uploadId \in DOMAIN uploads) =>
            LET install_path == uploads[last'.arg.uploadId].install_path
            IN IF Unsafe(last'.arg.filePath)
               THEN /\ last'.reply # Nothing
                    /\ last'.reply[1].type = "error"
                    /\ UNCHANGED << fs_dirs, fs_files >>
               ELSE \A f \in DOMAIN fs_files' :
                        (f \notin DOMAIN fs_files \/ fs_files'[f] # fs_files[f]) =>
                            IsPrefix(install_path, f)
      ]_vars

\* C18 as the specification states it: for every upload id in the registry
\* the session's installPath is a directory on disk.
C18_InstallDirExists ==
    \A u \in DOMAIN uploads : uploads[u].install_path \in fs_dirs

\* C19: a cancel_upload that is dispatched (the connection is authorized) is
\* always answered operation_result{success: true}.  When the session
\* exists it leaves the registry, and its installPath and everything below
\* it leave the disk; when it does not exist nothing changes, so a second
\* cancel_upload for the same uploadId is a successful no-op.
C19_CancelUpload ==
    [][ (last'.op = "cancel_upload" /\ conns[last'.conn].authorized) =>
            LET u == last'.arg.uploadId
            IN /\ last'.reply =
                      Some(Msg(last'.id, "operation_result", [success |-> TRUE]))
               /\ IF u \in DOMAIN uploads
                  THEN /\ DOMAIN uploads' = DOMAIN uploads \ {u}
                       /\ \A v \in DOMAIN uploads' : uploads'[v] = uploads[v]
                       /\ \A d \in fs_dirs' : ~IsPrefix(uploads[u].install_path, d)
                       /\ \A f \in DOMAIN fs_files' :
                              ~IsPrefix(uploads[u].install_path, f)
                       /\ UNCHANGED tracked_shortcuts
                  ELSE UNCHANGED upload_vars
      ]_vars

\* C19, its case: a cancel_upload found its session and was answered success;
\* the session has left the registry and its install directory the disk.
C19_Witness ==
    /\ last.op = "cancel_upload"
    /\ last.arg.found
    /\ last.arg.uploadId \notin DOMAIN uploads
    /\ join(Root, << "G" >>) \notin fs_dirs
    /\ last.reply = Some(Msg(last.id, "operation_result", [success |-> TRUE]))

\* C20: a text upload_chunk or a complete_upload that is dispatched, or a
\* binary chunk frame, whose uploadId is not in the registry (never opened,
\* cancelled or completed) is answered error 404 "Upload not found" under
\* its request id; the registry, the disk and tracked_shortcuts are
\* unchanged.
C20_UploadNotFound ==
    [][ (/\ last'.op \in {"upload_chunk", "binary", "complete_upload"}
         /\ last'.op # "binary" => conns[last'.conn].authorized
         /\ last'.arg.uploadId \notin DOMAIN uploads) =>
            /\ last'.reply = Some([id |-> last'.id, type |-> "error",
                                   payload |-> EmptyMap,
                                   error |-> [code |-> 404,
                                              message |-> "Upload not found"]])
            /\ UNCHANGED << uploads, fs_dirs, fs_files, tracked_shortcuts >>
      ]_vars

\* C20, its case: after an upload was completed with a shortcut, a binary
\* frame for an id of the form init_upload gives out, not in the registry,
\* was answered 404.
C20_Witness ==
    /\ last.op = "binary"
    /\ last.arg.uploadId # NoUpload
    /\ last.arg.uploadId \notin DOMAIN uploads
    /\ last.reply # Nothing
    /\ last.reply[1].error.code = 404
    /\ tracked_shortcuts # << >>
    /\ fs_files # EmptyMap

\* C21: a complete_upload that is dispatched for a session in the registry
\* is answered operation_result{success: true, path: installPath}, publishes
\* operation_event{install, complete, progress 100} and removes the session
\* from the registry (the other sessions and the disk are untouched); it
\* appends at most one record, with appId 0, to tracked_shortcuts.  A
\* complete_upload that follows for the same uploadId finds no session and
\* appends nothing: a session is completed at most once.
C21_CompleteOnce ==
    [][ (last'.op = "complete_upload" /\ conns[last'.conn].authorized) =>
            LET u == last'.arg.uploadId
            IN /\ u \in DOMAIN uploads =>
                    /\ last'.reply =
                           Some(Msg(last'.id, "operation_result",
                                    [success |-> TRUE,
                                     path |-> uploads[u].install_path]))
                    /\ events'["operation_event"] =
                           Some([timestamp |-> now,
                                 data |-> [type |-> "install", status |-> "complete",
                                           gameName |-> uploads[u].game_name,
                                           progress |-> 100]])
                    /\ DOMAIN uploads' = DOMAIN uploads \ {u}
                    /\ \A v \in DOMAIN uploads' : uploads'[v] = uploads[v]
                    /\ UNCHANGED << fs_dirs, fs_files >>
                    /\ \/ UNCHANGED tracked_shortcuts
                       \/ /\ Len(tracked_shortcuts') = Len(tracked_shortcuts) + 1
                          /\ SubSeq(tracked_shortcuts', 1, Len(tracked_shortcuts))
                                 = tracked_shortcuts
                          /\ tracked_shortcuts'[Len(tracked_shortcuts')].appId = 0
               /\ (/\ last.op = "complete_upload" /\ last.arg.uploadId = u
                   /\ last.reply # Nothing
                   /\ last.reply[1].type = "operation_result") =>
                    /\ last'.reply[1].type = "error"
                    /\ UNCHANGED << uploads, tracked_shortcuts >>
      ]_vars

\* C21, its case: a complete_upload with a shortcut was answered with the
\* install path; the session is gone, the pre-tracked record is the last of
\* tracked_shortcuts and the operation_event is in its slot.
C21_Witness ==
    /\ last.op = "complete_upload"
    /\ last.reply # Nothing
    /\ last.reply[1].type = "operation_result"
    /\ last.arg.uploadId \notin DOMAIN uploads
    /\ tracked_shortcuts # << >>
    /\ tracked_shortcuts[Len(tracked_shortcuts)].appId = 0
    /\ events["operation_event"] # Nothing
    /\ events["operation_event"][1].data.status = "complete"

\* C22 as the specification states it: once the connection that opened a
\* session has disconnected, a chunk or a complete_upload that a later
\* connection sends for its uploadId is not applied: the session, the disk
\* and tracked_shortcuts stay as they are (bytes written before stay).
C22_NoResumption ==
    [][ (/\ last'.op \in {"upload_chunk", "binary", "complete_upload"}
         /\ last'.conn = 2
         /\ conns[1].st = "closed"
         /\ last'.arg.uploadId \in DOMAIN uploads) =>
            UNCHANGED << uploads, fs_dirs, fs_files, tracked_shortcuts >>
      ]_vars

\* C23 as the specification states it: uploadIds are unique within the
\* process, so the id an init_upload returns is not the id of a session in
\* the registry, and every session in the registry stays as it is.
C23_UniqueIds ==
    [][ (last'.op = "init_upload" /\ last'.reply # Nothing
         /\ last'.reply[1].type = "upload_init_response") =>
            /\ last'.reply[1].payload.uploadId \notin DOMAIN uploads
            /\ \A u \in DOMAIN uploads :
                   u \in DOMAIN uploads' /\ uploads'[u] = uploads[u]
      ]_vars

\* C24: get_event(name) returns what the slot _event_<name> holds, the event
\* last published under the name and not yet drained, and leaves the slot
\* null; the slots of the other names are unchanged; a get_event(name) that
\* directly follows (no publish in between) returns null.
C24_ReadAndClear ==
    [][ last'.op = "get_event" =>
            LET name == last'.arg.name
            IN /\ last'.arg.event = events[name]
               /\ events'[name] = Nothing
               /\ \A other \in EventNames \ {name} : events'[other] = events[other]
               /\ (last.op = "get_event" /\ last.arg.name = name) =>
                      last'.arg.event = Nothing
      ]_vars

\* C24, its case: a get_event returned an event, its slot is null and
\* another slot still holds its event.
C24_Witness ==
    /\ last.op = "get_event"
    /\ last.arg.event # Nothing
    /\ events[last.arg.name] = Nothing
    /\ \E other \in EventNames \ {last.arg.name} : events[other] # Nothing

\* C25 as the specification states it: the UI never obtains an event B
\* before an event A that was published before B; so when get_event returns
\* an event, no slot holds an undrained event with an earlier timestamp.
C25_TimestampOrder ==
    [][ (last'.op = "get_event" /\ last'.arg.event # Nothing) =>
            \A name \in EventNames :
                events[name] # Nothing =>
                    events[name][1].timestamp >= last'.arg.event[1].timestamp
      ]_vars

\* C26: a delete_game that is dispatched and whose appId a tracked record
\* has leaves no folder at that record's startDir, publishes
\* remove_shortcut{appId}, leaves tracked_shortcuts without the records of
\* that appId (the others kept, in order) and is answered operation_result
\* with steamRestarted true exactly when the restart subprocess was spawned.
\* When no tracked record has the appId the answer is an error, nothing is
\* deleted and no event published.
C26_DeleteGame ==
    [][ (last'.op = "delete_game" /\ conns[last'.conn].authorized) =>
            LET app_id == last'.arg.appId
                found == {i \in 1..Len(tracked_shortcuts) :
                             tracked_shortcuts[i].appId = app_id}
            IN IF found # {}
               THEN LET game == tracked_shortcuts[CHOOSE i \in found :
                                                      \A j \in found : i <= j]
                    IN /\ \A d \in fs_dirs' : ~IsPrefix(game.startDir, d)
                       /\ \A f \in DOMAIN fs_files' : ~IsPrefix(game.startDir, f)
                       /\ events'["remove_shortcut"] =
                              Some([timestamp |-> now, data |-> [appId |-> app_id]])
                       /\ tracked_shortcuts' =
                              SelectSeq(tracked_shortcuts, LAMBDA sc : sc.appId # app_id)
                       /\ last'.reply # Nothing
                       /\ last'.reply[1].type = "operation_result"
                       /\ last'.reply[1].payload.steamRestarted = last'.arg.spawned
               ELSE /\ last'.reply = Some([id |-> last'.id, type |-> "error",
                                           payload |-> EmptyMap,
                                           error |-> [code |-> 404,
                                                      message |-> "game not found"]])
                    /\ UNCHANGED << fs_dirs, fs_files, tracked_shortcuts, events >>
      ]_vars

\* C26, its case: a delete_game found its record; the spawn of the restart
\* failed and the answer says so; the folder and the record are gone and
\* remove_shortcut is in its slot.
C26_Witness ==
    /\ last.op = "delete_game"
    /\ last.reply # Nothing
    /\ last.reply[1].type = "operation_result"
    /\ ~last.arg.spawned
    /\ ~last.reply[1].payload.steamRestarted
    /\ join(Root, << "G" >>) \notin fs_dirs
    /\ tracked_shortcuts = << >>
    /\ events["remove_shortcut"] # Nothing

\* C27: revoke_hub(hubId) returns true exactly when hubId is in
\* authorized_hubs and then removes the entry; otherwise it returns false and
\* changes nothing.  After it validate_token(hubId, t) is false for every t,
\* the entries of the other hubs are as before, and a revoke_hub(hubId)
\* that directly follows returns false.
C27_RevokeHub ==
    [][ last'.op = "revoke_hub" =>
            LET hub_id == last'.arg.hubId
            IN /\ last'.arg.result = (hub_id \in DOMAIN authorized_hubs)
               /\ DOMAIN authorized_hubs' = DOMAIN authorized_hubs \ {hub_id}
               /\ \A h \in DOMAIN authorized_hubs' :
                      authorized_hubs'[h] = authorized_hubs[h]
               /\ \A h \in HubIds, t \in Tokens \cup {""} :
                      h = hub_id => ~(validate_token(h, t))'
               /\ (last.op = "revoke_hub" /\ last.arg.hubId = hub_id) =>
                      ~last'.arg.result
      ]_vars

\* C27, its case: revoke_hub returned true for one hub while another hub
\* keeps its entry.
C27_Witness ==
    /\ last.op = "revoke_hub"
    /\ last.arg.result
    /\ last.arg.hubId \notin DOMAIN authorized_hubs
    /\ DOMAIN authorized_hubs # {}

\* C28 as the specification states it: when a connection's reader loop
\* exits, its own writer terminates and no other connection's writer is
\* stopped; and once all connections have closed no writer task is still
\* waiting on a queue.
C28_OwnWriterJoined ==
    [][ /\ last'.op = "closing" =>
              /\ pumps'[last'.conn].st = "done"
              /\ \A p \in Conns \ {last'.conn} :
                     pumps[p].st # "done" => pumps'[p].st # "done"
        /\ (\A c \in Conns : conns'[c].st = "closed") =>
              \A p \in Conns : pumps'[p].st \notin {"blocked", "stuck"}
      ]_vars

\* C29: the close of a connection (both halves of the finally block) changes
\* neither the upload registry nor the disk: every session is still there
\* with the same transferred bytes and status, no file is deleted.
C29_CloseKeepsUploads ==
    [][ last'.op \in {"closing", "closed"} =>
            UNCHANGED << uploads, fs_dirs, fs_files >>
      ]_vars

\* C29, its case: the connection that opened a session and wrote a chunk has
\* closed; the session, with its byte counted, and the file are there.
C29_Witness ==
    /\ last.op = "closed"
    /\ last.conn = 1
    /\ \E u \in DOMAIN uploads :
           /\ uploads[u].transferred > 0
           /\ uploads[u].status = "active"
    /\ fs_files # EmptyMap

\* C30 as the specification states it: at most one DNS-SD record of this
\* agent is published at a time, and once set_enabled(false) has returned no
\* record of this agent remains published.
C30_AdvertiserLifecycle ==
    /\ Cardinality(Published) <= 1
    /\ ~mdns.enabled => Published = {}

\* C31 as the specification states it: a connection that is authorized stays
\* authorized, and identified with the same hubId, whatever message follows
\* on it: a hub_connected without hubId or without a valid token, or a
\* pair_confirm with a wrong code.
C31_AuthorizedStays ==
    [][ (/\ last'.conn \in Conns
         /\ conns[last'.conn].authorized
         /\ \/ /\ last'.op = "hub_connected"
               /\ \A h \in HubIds, t \in Tokens :
                      (h = last'.arg.hubId /\ t = last'.arg.token) =>
                          ~validate_token(h, t)
            \/ /\ last'.op = "pair_confirm"
               /\ last'.arg.code # pending_code) =>
            /\ conns'[last'.conn].authorized
            /\ conns'[last'.conn].hub_id = conns[last'.conn].hub_id
      ]_vars

\* C32 as the specification states it: get_status().connected tells whether
\* an authorized connection is open; in particular the close of one
\* connection leaves it true while another connection, authorized under the
\* same hubId, is still open.
C32_ConnectedTellsTruth ==
    [][ (/\ last'.op = "closed"
         /\ \E d \in Conns \ {last'.conn} :
                /\ conns'[d].st = "open"
                /\ conns'[d].authorized
                /\ connected_hub # Nothing
                /\ conns'[d].hub_id = connected_hub[1].id) =>
            get_status.connected'
      ]_vars

\* C33 as the specification states it: a delete_game that deleted a game
\* removes from tracked_shortcuts only the record whose folder it deleted; a
\* record whose folder is still there, be its appId the pending 0, stays.
C33_DeleteRemovesOne ==
    [][ (/\ last'.op = "delete_game"
         /\ last'.reply # Nothing
         /\ last'.reply[1].type = "operation_result") =>
            \A i \in 1..Len(tracked_shortcuts) :
                tracked_shortcuts[i].startDir \in fs_dirs' =>
                    \E j \in 1..Len(tracked_shortcuts') :
                        tracked_shortcuts'[j] = tracked_shortcuts[i]
      ]_vars

\* C34 as the specification states it: a gated request on a connection
\* identified as a hub that was revoked and has not paired or presented a
\* valid token since (it is not in authorized_hubs) is refused with 401.
C34_RevokedRefused ==
    [][ (/\ last'.op \in GatedTypes
         /\ last'.conn \in Conns
         /\ conns[last'.conn].hub_id \notin DOMAIN authorized_hubs) =>
            /\ last'.reply # Nothing
            /\ last'.reply[1].type = "error"
            /\ last'.reply[1].error.code = 401
      ]_vars

\* C35 as the specification states it: no published event is overwritten
\* before it was drained; so after a delete_game that deleted a game each of
\* the events it published, the start, progress and complete operation_events
\* and remove_shortcut, is in a slot for the UI to drain.
C35_NoEventLost ==
    [][ (/\ last'.op = "delete_game"
         /\ last'.reply # Nothing
         /\ last'.reply[1].type = "operation_result") =>
            LET published == delete_game_events(last'.reply[1].payload.gameName,
                                                last'.arg.appId)
            IN \A k \in 1..Len(published) :
                   events'[published[k].event] =
                       Some([timestamp |-> now, data |-> published[k].data])
      ]_vars

====
